---------------------------- MODULE Spec2Model ----------------------------
(***************************************************************************)
(* A model of google-form-exporter: the Apps Script entry points of        *)
(* Code.js (runExportAll, runExportToJSON, runExportToMarkdown,            *)
(* saveToDrive_), the JSON exporter of exportForm.js and the Markdown      *)
(* exporter of toMarkdown.js, and the build step scripts/inject-env.js.    *)
(*                                                                         *)
(* Text is a sequence of tokens: a token is a run of plain characters      *)
(* ("Intro"), a tag ("<b>", "</b>", "<br>", ...) or a newline ("\n").      *)
(* A line of Markdown output is such a sequence and a document is a        *)
(* sequence of lines (the code joins them with "\n" at the very end).      *)
(***************************************************************************)
EXTENDS Integers, Sequences, FiniteSets, TLC

VARIABLES
    live,            \* the items of the form FORM_ID as Google Forms holds them now
    active,          \* what FormApp.getActiveForm() returns: "none", "same", "other"
    folderId,        \* EXPORT_FOLDER_ID: "" (unset) or "folder"
    now,             \* the clock, in ticks
    edits,           \* how many edits the other editors of the form have made
    pc,              \* where the running entry point is
    form,            \* runExportAll: var form
    items,           \* runExportAll: var items
    logs,            \* Logger.log output of the current execution
    drive,           \* the files of the export folder, in the order of their creation
    openByIdCalls,   \* FormApp.openById calls of the current execution
    getItemsCalls,   \* getItems calls of the current execution
    outcome,         \* what happened in each phase of the current execution
    calls,           \* the exporter calls that returned, oldest first (at most two)
    nav,             \* the navigation resolvers' arguments and results (SpecNav)
    conv,            \* convertToMarkdown's argument and results (SpecText)
    build            \* the build step scripts/inject-env.js and its files (SpecBuild)

vars == << live, active, folderId, now, edits, pc, form, items, logs,
           drive, openByIdCalls, getItemsCalls, outcome, calls, nav, conv, build >>

---------------------------------------------------------------------------
(* Bounds of the model.                                                    *)

MaxItems == 2      \* items of the form at the start
MaxEdits == 1      \* edits by other editors
MaxTime == 2       \* clock ticks
MaxNavItems == 3   \* items of the lists the navigation resolvers are applied to
MaxProseItems == 3 \* items of the lists exportFormToMarkdown is applied to
MaxVariantItems == 2 \* items of the forms of SpecVariants
MaxEnvLines == 2    \* lines of the .env file
MaxTextLen == 5    \* tokens of the texts convertToMarkdown is applied to

TicksPerSecond == 2   \* the clock is finer than the timestamp's seconds

---------------------------------------------------------------------------
(* Small helpers on sequences.                                             *)

InsertAt(s, p, x) == SubSeq(s, 1, p) \o << x >> \o SubSeq(s, p + 1, Len(s))

---------------------------------------------------------------------------
(* FormApp items.  getGoToPage()/getGotoPage() return an item handle or    *)
(* null; the model holds the handle's id, 0 for null.  An item also        *)
(* carries how its optional capabilities answer: required is "no method"   *)
(* (typeof item.isRequired is not "function"), "throws", "true" or         *)
(* "false"; getChoices is "ok" or "throws".                                *)

Choice(value, navType, goto) == [value |-> value, navType |-> navType, goto |-> goto]

\* A type tag and a method name are sequences of words: "MULTIPLE_CHOICE" is
\* << "MULTIPLE", "CHOICE" >>, "asMultipleChoiceItem" is
\* << "as", "Multiple", "Choice", "Item" >>.
TypeWords(type) ==
    CASE type = "PARAGRAPH_TEXT" -> << "PARAGRAPH", "TEXT" >>
      [] type = "MULTIPLE_CHOICE" -> << "MULTIPLE", "CHOICE" >>
      [] type = "PAGE_BREAK" -> << "PAGE", "BREAK" >>
      [] OTHER -> << type >>

\* s.toLowerCase() on one word.
toLowerCase(word) ==
    CASE word = "AS" -> "as"
      [] word = "ITEM" -> "item"
      [] word = "TEXT" -> "text"
      [] word = "PARAGRAPH" -> "paragraph"
      [] word = "MULTIPLE" -> "multiple"
      [] word = "CHOICE" -> "choice"
      [] word = "CHECKBOX" -> "checkbox"
      [] word = "LIST" -> "list"
      [] word = "SCALE" -> "scale"
      [] word = "PAGE" -> "page"
      [] word = "BREAK" -> "break"
      [] word = "IMAGE" -> "image"
      [] word = "VIDEO" -> "video"
      [] word = "DATE" -> "date"
      [] word = "DATETIME" -> "datetime"

\* m[1].toUpperCase() on the first letter of a lower-case word.
toUpperCaseFirst(word) ==
    CASE word = "item" -> "Item"
      [] word = "text" -> "Text"
      [] word = "paragraph" -> "Paragraph"
      [] word = "multiple" -> "Multiple"
      [] word = "choice" -> "Choice"
      [] word = "checkbox" -> "Checkbox"
      [] word = "list" -> "List"
      [] word = "scale" -> "Scale"
      [] word = "page" -> "Page"
      [] word = "break" -> "Break"
      [] word = "image" -> "Image"
      [] word = "video" -> "Video"
      [] word = "date" -> "Date"
      [] word = "datetime" -> "Datetime"

\* snakeCaseToCamelCase(s): lower case everything, then replace every "_" and
\* the letter after it by that letter in upper case.
snakeCaseToCamelCase(words) ==
    [k \in 1..Len(words) |->
        IF k = 1 THEN toLowerCase(words[k]) ELSE toUpperCaseFirst(toLowerCase(words[k]))]

\* "AS_" + type.toString() + "_ITEM"
itemTypeConstructorName(type) ==
    snakeCaseToCamelCase(<< "AS" >> \o TypeWords(type) \o << "ITEM" >>)

\* An item handle.  downcast is the name of the method of the handle that
\* returns the typed item; lowerBound .. rightLabel are read of a SCALE item,
\* alignment of an IMAGE or VIDEO item, image of an IMAGE item.
Item(id, type, title, navType, goto, choices, other) ==
    [id |-> id, type |-> type, title |-> title, helpText |-> << >>,
     nav |-> [navType |-> navType, goto |-> goto],
     choices |-> choices, hasOther |-> other,
     required |-> IF type = "PAGE_BREAK" THEN "no method" ELSE "false",
     getChoices |-> "ok",
     downcast |-> itemTypeConstructorName(type),
     lowerBound |-> 0, upperBound |-> 0, leftLabel |-> << >>, rightLabel |-> << >>,
     alignment |-> "LEFT", image |-> "blob"]

PBIntro == Item(1, "PAGE_BREAK", << "Intro" >>, "CONTINUE", 0, << >>, FALSE)
PBEnd == Item(2, "PAGE_BREAK", << "End" >>, "SUBMIT", 0, << >>, FALSE)
PBBold == Item(3, "PAGE_BREAK", << "<b>", "Loop", "</b>" >>, "GO_TO_PAGE", 1, << >>, FALSE)
QName == [Item(4, "TEXT", << "Name" >>, "NONE", 0, << >>, FALSE) EXCEPT !.required = "true"]
QPick ==
    Item(5, "MULTIPLE_CHOICE", << "Pick" >>, "NONE", 0,
         << Choice(<< "Yes" >>, "GO_TO_PAGE", 2), Choice(<< "No" >>, "CONTINUE", 0) >>,
         TRUE)
\* A dropdown has no "Other" option: a ListItem has no hasOtherOption method
\* (exportForm.js l.114 tests for it), so hasOther is FALSE for the type LIST.
QDrop ==
    Item(6, "LIST", << "Drop" >>, "NONE", 0,
         << Choice(<< "Back" >>, "GO_TO_PAGE", 1), Choice(<< "Stop" >>, "SUBMIT", 0) >>,
         FALSE)
QBlank == [Item(7, "TEXT", << >>, "NONE", 0, << >>, FALSE) EXCEPT !.required = "throws"]
QAdded ==
    Item(8, "CHECKBOX", << "Added" >>, "NONE", 0,
         << Choice(<< "Blue" >>, "CONTINUE", 0) >>, TRUE)
QOther == Item(20, "TEXT", << "Elsewhere" >>, "NONE", 0, << >>, FALSE)
\* A checkbox question whose getChoices() throws.
QBroken ==
    [Item(11, "CHECKBOX", << "Tags" >>, "NONE", 0,
          << Choice(<< "Red" >>, "CONTINUE", 0) >>, FALSE)
        EXCEPT !.getChoices = "throws"]

ItemPool == { PBIntro, PBEnd, PBBold, QName, QPick, QDrop, QBlank, QBroken }

\* The items of the form another script container is bound to.
OtherItems == << QOther >>

Targets(it) ==
    { it.nav.goto } \cup { it.choices[k].goto : k \in 1..Len(it.choices) }

\* Google Forms only lets a page break or a choice jump to a page break of
\* the same form, and item ids are unique within a form.
WellFormed(its) ==
    /\ \A i, j \in 1..Len(its) : its[i].id = its[j].id => i = j
    /\ \A i \in 1..Len(its) : \A t \in Targets(its[i]) \ {0} :
           \E j \in 1..Len(its) : its[j].id = t /\ its[j].type = "PAGE_BREAK"

RECURSIVE SeqsUpTo(_, _)
SeqsUpTo(S, n) ==
    IF n = 0 THEN { << >> }
    ELSE LET shorter == SeqsUpTo(S, n - 1)
         IN  shorter \cup { Append(s, x) : s \in shorter, x \in S }

Forms == { its \in SeqsUpTo(ItemPool, MaxItems) : WellFormed(its) }

---------------------------------------------------------------------------
(* toMarkdown.js: convertToMarkdown.                                       *)

\* "." of a JavaScript regular expression matches anything but a line end.
Dot(tok) == tok # "\n"

\* The least j > i with s[j] = close and only "." tokens in between, 0 if none:
\* the lazy group (.*?) followed by the closing tag.
RECURSIVE LazyClose(_, _, _)
LazyClose(s, j, close) ==
    IF j > Len(s) THEN 0
    ELSE IF s[j] = close THEN j
    ELSE IF Dot(s[j]) THEN LazyClose(s, j + 1, close)
    ELSE 0

\* text.replace(/open(.*?)close/g, left + "$1" + right), scanning from token i.
RECURSIVE ReplacePair(_, _, _, _, _, _)
ReplacePair(s, i, open, close, left, right) ==
    IF i > Len(s) THEN << >>
    ELSE LET j == IF s[i] = open THEN LazyClose(s, i + 1, close) ELSE 0
         IN  IF j # 0
             THEN << left >> \o SubSeq(s, i + 1, j - 1) \o << right >>
                    \o ReplacePair(s, j + 1, open, close, left, right)
             ELSE << s[i] >> \o ReplacePair(s, i + 1, open, close, left, right)

\* text.replace(/tag/g, with)
ReplaceTag(s, tag, with) ==
    [k \in 1..Len(s) |-> IF s[k] = tag THEN with ELSE s[k]]

\* The match of /<a href="(.*?)">(.*?)<\/a>/ whose "<a href=" is just before
\* token j: << end of group 1, end of group 2 >> + 1, or << 0, 0 >>.  The first
\* group grows, token by token, until the rest of the pattern matches.
RECURSIVE AnchorMatch(_, _)
AnchorMatch(s, j) ==
    IF j > Len(s) THEN << 0, 0 >>
    ELSE IF s[j] = "\">" /\ LazyClose(s, j + 1, "</a>") # 0
         THEN << j, LazyClose(s, j + 1, "</a>") >>
    ELSE IF Dot(s[j]) THEN AnchorMatch(s, j + 1)
    ELSE << 0, 0 >>

\* text.replace(/<a href="(.*?)">(.*?)<\/a>/g, "[$2]($1)"), from token i.
RECURSIVE ReplaceAnchor(_, _)
ReplaceAnchor(s, i) ==
    IF i > Len(s) THEN << >>
    ELSE LET m == IF s[i] = "<a href=\"" THEN AnchorMatch(s, i + 1) ELSE << 0, 0 >>
         IN  IF m[1] # 0
             THEN << "[" >> \o SubSeq(s, m[1] + 1, m[2] - 1) \o << "](" >>
                    \o SubSeq(s, i + 1, m[1] - 1) \o << ")" >>
                    \o ReplaceAnchor(s, m[2] + 1)
             ELSE << s[i] >> \o ReplaceAnchor(s, i + 1)

convertToMarkdown(text) ==
    IF text = << >> THEN << >>
    ELSE LET bold == ReplacePair(text, 1, "<b>", "</b>", "**", "**")
             ital == ReplacePair(bold, 1, "<i>", "</i>", "*", "*")
             undU == ReplacePair(ital, 1, "<u>", "</u>", "<u>", "</u>")
             undl == ReplaceAnchor(undU, 1)
             br1 == ReplaceTag(undl, "<br>", "\n")
             br2 == ReplaceTag(br1, "<br/>", "\n")
             br3 == ReplaceTag(br2, "<br />", "\n")
         IN  br3

---------------------------------------------------------------------------
(* toMarkdown.js: the section map and the two navigation resolvers.        *)
(* Positions are 0-based as in the code: items[i] is its[i + 1] here.      *)
(* " -> " stands for the code's " \u2192 ".                                *)

NoSections == [i \in {} |-> [number |-> 0, title |-> << >>]]

RECURSIVE BuildSectionMapFrom(_, _, _, _)
BuildSectionMapFrom(its, index, sectionNumber, sectionMap) ==
    IF index >= Len(its) THEN sectionMap
    ELSE IF its[index + 1].type = "PAGE_BREAK"
         THEN LET n == sectionNumber + 1
                  t == its[index + 1].title
                  entry == [number |-> n,
                            title |-> IF t # << >> THEN t
                                      ELSE << "Section ", ToString(n) >>]
              IN  BuildSectionMapFrom(its, index + 1, n, sectionMap @@ (index :> entry))
         ELSE BuildSectionMapFrom(its, index + 1, sectionNumber, sectionMap)

\* sectionMap[index] = { number: index + 1, ... }: the position, not the count.
buildSectionMapByPosition(its) ==
    [i \in { j \in 0..(Len(its) - 1) : its[j + 1].type = "PAGE_BREAK" } |->
        [number |-> i + 1,
         title |-> IF its[i + 1].title # << >> THEN its[i + 1].title
                   ELSE << "Section ", ToString(i + 1) >>]]

buildSectionMap(its) == BuildSectionMapFrom(its, 0, 0, NoSections)

\* for (i = 0; i < allItems.length; i++) if (allItems[i].getId() === id) ...
RECURSIVE TargetIndexFrom(_, _, _)
TargetIndexFrom(allItems, id, i) ==
    IF i >= Len(allItems) THEN -1
    ELSE IF allItems[i + 1].id = id THEN i
    ELSE TargetIndexFrom(allItems, id, i + 1)

GoToSection(section) ==
    << "**Go to section ", ToString(section.number), " (" >>
        \o convertToMarkdown(section.title) \o << ")**" >>

\* The inline resolver naming the target's position when it has no section.
getNavigationTextByPosition(navType, navItem, allItems, sectionMap) ==
    IF navType = "CONTINUE" THEN << >>
    ELSE IF navType = "SUBMIT" THEN << " -> **Submit form**" >>
    ELSE IF navType = "GO_TO_PAGE" /\ navItem # 0
         THEN LET targetIndex == TargetIndexFrom(allItems, navItem, 0)
              IN  IF targetIndex >= 0 /\ targetIndex \in DOMAIN sectionMap
                  THEN << " -> " >> \o GoToSection(sectionMap[targetIndex])
                  ELSE << " -> **Go to item ", ToString(targetIndex + 1), "**" >>
    ELSE << >>

\* navItem is the id of the target handle, 0 for null.
getNavigationText(navType, navItem, allItems, sectionMap) ==
    IF navType = "CONTINUE" THEN << >>
    ELSE IF navType = "SUBMIT" THEN << " -> **Submit form**" >>
    ELSE IF navType = "GO_TO_PAGE" /\ navItem # 0
         THEN LET targetIndex == TargetIndexFrom(allItems, navItem, 0)
              IN  IF targetIndex >= 0 /\ targetIndex \in DOMAIN sectionMap
                  THEN << " -> " >> \o GoToSection(sectionMap[targetIndex])
                  ELSE << >>
    ELSE << >>

\* The section-summary resolver answering CONTINUE as the inline resolver does.
getDefaultSectionNavigationSilent(pageBreakItem, allItems, sectionMap) ==
    LET navType == pageBreakItem.nav.navType
        navItem == pageBreakItem.nav.goto
    IN  IF navType = "CONTINUE" THEN << >>
        ELSE IF navType = "SUBMIT" THEN << "**Submit form**" >>
        ELSE IF navType = "GO_TO_PAGE" /\ navItem # 0
             THEN LET targetIndex == TargetIndexFrom(allItems, navItem, 0)
                  IN  IF targetIndex >= 0 /\ targetIndex \in DOMAIN sectionMap
                      THEN GoToSection(sectionMap[targetIndex])
                      ELSE << >>
        ELSE << >>

\* The section-summary resolver resolving a jump only to a later item.
getDefaultSectionNavigationForward(pageBreakItem, allItems, sectionMap) ==
    LET navType == pageBreakItem.nav.navType
        navItem == pageBreakItem.nav.goto
    IN  IF navType = "CONTINUE" THEN << "Continue to next section" >>
        ELSE IF navType = "SUBMIT" THEN << "**Submit form**" >>
        ELSE IF navType = "GO_TO_PAGE" /\ navItem # 0
             THEN LET targetIndex == TargetIndexFrom(allItems, navItem, 0)
                  IN  IF /\ targetIndex > TargetIndexFrom(allItems, pageBreakItem.id, 0)
                         /\ targetIndex \in DOMAIN sectionMap
                      THEN GoToSection(sectionMap[targetIndex])
                      ELSE << >>
        ELSE << >>

getDefaultSectionNavigation(pageBreakItem, allItems, sectionMap) ==
    LET navType == pageBreakItem.nav.navType
        navItem == pageBreakItem.nav.goto
    IN  IF navType = "CONTINUE" THEN << "Continue to next section" >>
        ELSE IF navType = "SUBMIT" THEN << "**Submit form**" >>
        ELSE IF navType = "GO_TO_PAGE" /\ navItem # 0
             THEN LET targetIndex == TargetIndexFrom(allItems, navItem, 0)
                  IN  IF targetIndex >= 0 /\ targetIndex \in DOMAIN sectionMap
                      THEN GoToSection(sectionMap[targetIndex])
                      ELSE << >>
        ELSE << >>

---------------------------------------------------------------------------
(* toMarkdown.js: renderItemBodyMarkdown and exportFormToMarkdown.         *)
(* activeItems is what FormApp.getActiveForm() gives when the body is      *)
(* rendered: the active form's getItems(), or [] when there is none.       *)

RECURSIVE ChoiceLines(_, _, _, _)
ChoiceLines(choices, k, allItems, sectionMap) ==
    IF k > Len(choices) THEN << >>
    ELSE LET choice == choices[k]
             choiceText == << "- " >> \o convertToMarkdown(choice.value)
             navText == getNavigationText(choice.navType, choice.goto, allItems, sectionMap)
         IN  << choiceText \o navText >> \o ChoiceLines(choices, k + 1, allItems, sectionMap)

RECURSIVE PlainChoiceLines(_, _)
PlainChoiceLines(choices, k) ==
    IF k > Len(choices) THEN << >>
    ELSE << << "- " >> \o convertToMarkdown(choices[k].value) >>
            \o PlainChoiceLines(choices, k + 1)

\* The line of the "Other" option pushed whatever hasOtherOption() answers.
OtherLineAlways(item) == << << "- Other: _text response_" >> >>

\* if (typedItem.hasOtherOption()) lines.push("- Other: _text response_");
OtherLine(item) ==
    IF item.hasOther THEN << << "- Other: _text response_" >> >> ELSE << >>

renderItemBodyMarkdown(item, type, sectionMap, activeItems) ==
    LET allItems == activeItems
    IN  CASE type = "TEXT" -> << << "_Open text response_" >> >>
          [] type = "PARAGRAPH_TEXT" -> << << "_Long open text response_" >> >>
          [] type = "MULTIPLE_CHOICE" ->
                << << "_Single choice_" >>, << >> >>
                    \o ChoiceLines(item.choices, 1, allItems, sectionMap)
                    \o OtherLine(item)
          [] type = "CHECKBOX" ->
                << << "_Select all that apply_" >>, << >> >>
                    \o PlainChoiceLines(item.choices, 1)
                    \o OtherLine(item)
          [] type = "LIST" ->
                << << "_Dropdown (single choice)_" >>, << >> >>
                    \o ChoiceLines(item.choices, 1, allItems, sectionMap)
          [] type = "SCALE" ->
                << << "Scale: ", ToString(item.lowerBound), " to ",
                      ToString(item.upperBound) >>
                   \o (IF item.leftLabel # << >> \/ item.rightLabel # << >>
                       \* " ... " stands for the code's " \u2026 "
                       THEN << " (" >> \o convertToMarkdown(item.leftLabel) \o << " ... " >>
                               \o convertToMarkdown(item.rightLabel) \o << ")" >>
                       ELSE << >>) >>
          [] OTHER ->
                << << "_Item type: ", type, " (not specially formatted)_" >> >>

\* item[itemTypeConstructorName]() is a TypeError when the handle has no method
\* of the computed name, and typedItem.getChoices() is called outside any try
\* block: what they throw leaves renderItemBodyMarkdown and exportFormToMarkdown.
renderItemBodyMarkdownThrows(item, type) ==
    \/ item.downcast # itemTypeConstructorName(type)
    \/ type \in { "MULTIPLE_CHOICE", "CHECKBOX", "LIST" } /\ item.getChoices = "throws"

DefaultLines(pageBreakItem, its, sectionMap, last) ==
    LET defaultNav == getDefaultSectionNavigation(pageBreakItem, its, sectionMap)
    IN  IF defaultNav = << >> THEN << >>
        ELSE << << >>, << "_Default: " >> \o defaultNav \o << "_" >> >>
                \o (IF last THEN << >> ELSE << << >> >>)

\* The walk with var questionCounter = 0.
WalkStartAtZero(lines) ==
    [lines |-> lines, questionCounter |-> 0, sectionCounter |-> 0, current |-> << >>]

\* The state of the walk: st.current is << the open page break >> or << >>.
WalkStart(lines) ==
    [lines |-> lines, questionCounter |-> 1, sectionCounter |-> 0, current |-> << >>]

\* The body of the walk pushing the section's heading before the default
\* navigation of the section just closed.
WalkItemDefaultAfterHeading(st, item, its, sectionMap, activeItems) ==
    IF item.type = "PAGE_BREAK"
    THEN LET closing == IF st.current # << >>
                        THEN DefaultLines(st.current[1], its, sectionMap, FALSE)
                        ELSE << >>
             n == st.sectionCounter + 1
             heading == IF item.title # << >>
                        THEN << << >>,
                                << "## Section ", ToString(n), ": " >>
                                    \o convertToMarkdown(item.title) >>
                               \o (IF item.helpText # << >>
                                   THEN << << >>, convertToMarkdown(item.helpText) >>
                                   ELSE << >>)
                               \o << << >> >>
                        ELSE << >>
         IN  [st EXCEPT !.lines = @ \o heading \o closing,
                        !.sectionCounter = n,
                        !.current = << item >>]
    ELSE IF item.title = << >> THEN st
    ELSE LET q == st.questionCounter + 1
             heading == << << "### Q", ToString(q), ". " >> \o convertToMarkdown(item.title) >>
             help == IF item.helpText # << >>
                     THEN << << >>, << "_" >> \o convertToMarkdown(item.helpText) \o << "_" >> >>
                     ELSE << >>
             body == renderItemBodyMarkdown(item, item.type, sectionMap, activeItems)
         IN  [st EXCEPT !.lines = @ \o heading \o help \o << << >> >> \o body \o << << >> >>,
                        !.questionCounter = q]

\* The body of the walk counting only the page breaks that have a title.
WalkItemCountTitled(st, item, its, sectionMap, activeItems) ==
    IF item.type = "PAGE_BREAK"
    THEN LET closing == IF st.current # << >>
                        THEN DefaultLines(st.current[1], its, sectionMap, FALSE)
                        ELSE << >>
             n == st.sectionCounter + 1
             heading == IF item.title # << >>
                        THEN << << >>,
                                << "## Section ", ToString(n), ": " >>
                                    \o convertToMarkdown(item.title) >>
                               \o (IF item.helpText # << >>
                                   THEN << << >>, convertToMarkdown(item.helpText) >>
                                   ELSE << >>)
                               \o << << >> >>
                        ELSE << >>
         IN  [st EXCEPT !.lines = @ \o closing \o heading,
                        !.sectionCounter = IF item.title # << >> THEN n ELSE @,
                        !.current = << item >>]
    ELSE IF item.title = << >> THEN st
    ELSE LET q == st.questionCounter + 1
             heading == << << "### Q", ToString(q), ". " >> \o convertToMarkdown(item.title) >>
             help == IF item.helpText # << >>
                     THEN << << >>, << "_" >> \o convertToMarkdown(item.helpText) \o << "_" >> >>
                     ELSE << >>
             body == renderItemBodyMarkdown(item, item.type, sectionMap, activeItems)
         IN  [st EXCEPT !.lines = @ \o heading \o help \o << << >> >> \o body \o << << >> >>,
                        !.questionCounter = q]

\* The body of items.forEach(function(item, index) { ... }).
WalkItem(st, item, its, sectionMap, activeItems) ==
    IF item.type = "PAGE_BREAK"
    THEN LET closing == IF st.current # << >>
                        THEN DefaultLines(st.current[1], its, sectionMap, FALSE)
                        ELSE << >>
             n == st.sectionCounter + 1
             heading == IF item.title # << >>
                        THEN << << >>,
                                << "## Section ", ToString(n), ": " >>
                                    \o convertToMarkdown(item.title) >>
                               \o (IF item.helpText # << >>
                                   THEN << << >>, convertToMarkdown(item.helpText) >>
                                   ELSE << >>)
                               \o << << >> >>
                        ELSE << >>
         IN  [st EXCEPT !.lines = @ \o closing \o heading,
                        !.sectionCounter = n,
                        !.current = << item >>]
    ELSE IF item.title = << >> THEN st
    ELSE LET q == st.questionCounter + 1
             heading == << << "### Q", ToString(q), ". " >> \o convertToMarkdown(item.title) >>
             help == IF item.helpText # << >>
                     THEN << << >>, << "_" >> \o convertToMarkdown(item.helpText) \o << "_" >> >>
                     ELSE << >>
             body == renderItemBodyMarkdown(item, item.type, sectionMap, activeItems)
         IN  [st EXCEPT !.lines = @ \o heading \o help \o << << >> >> \o body \o << << >> >>,
                        !.questionCounter = q]

RECURSIVE Walk(_, _, _, _, _)
Walk(st, index, its, sectionMap, activeItems) ==
    IF index >= Len(its) THEN st
    ELSE Walk(WalkItem(st, its[index + 1], its, sectionMap, activeItems),
              index + 1, its, sectionMap, activeItems)

\* An optional argument is << >> when it is left out (or null) and << v >>
\* when it is given: an empty array is given, [] || x being [] in JavaScript.
Absent == << >>
Given(v) == << v >>

\* FormApp.openById(FORM_ID): the handle of the form, which carries what the
\* model reads of it besides its items.
TheForm ==
    [id |-> "FORM_ID", title |-> << "Survey" >>,
     description |-> << "Tell ", "<i>", "us", "</i>" >>]

\* liveItems is what a getItems() on the form returns during the call.
\* Lines 16-26: the title and the description.
TitleLines(theForm) ==
    << << "# " >> \o theForm.title >>
        \o (IF theForm.description # << >>
            THEN << << >>, convertToMarkdown(theForm.description) >>
            ELSE << >>)
        \o << << >> >>

\* The end of the walk without the block of lines 91-98.
WalkEndNoDefault(st, its, sectionMap) == st.lines

\* Lines 91-100: the default navigation of the last section.
WalkEnd(st, its, sectionMap) ==
    st.lines \o (IF st.current # << >>
                 THEN DefaultLines(st.current[1], its, sectionMap, TRUE)
                 ELSE << >>)

MarkdownOf(theForm, its, sectionMap, activeItems) ==
    WalkEnd(Walk(WalkStart(TitleLines(theForm)), 0, its, sectionMap, activeItems),
            its, sectionMap)

exportFormToMarkdown(formId, optionalForm, optionalItems, liveItems, activeItems) ==
    \* var form = optionalForm || FormApp.openById(formId);
    \* var items = optionalItems || form.getItems();
    LET theForm == IF optionalForm # Absent THEN optionalForm[1] ELSE TheForm
        its == IF optionalItems # Absent THEN optionalItems[1] ELSE liveItems
    IN  MarkdownOf(theForm, its, buildSectionMap(its), activeItems)

\* Whether exportFormToMarkdown throws on these items instead of returning.
exportFormToMarkdownThrows(its) ==
    \E k \in 1..Len(its) :
        /\ its[k].type # "PAGE_BREAK"
        /\ its[k].title # << >>
        /\ renderItemBodyMarkdownThrows(its[k], its[k].type)

\* How many times one exportFormToMarkdown reaches renderItemBodyMarkdown, each
\* of which reads FormApp.getActiveForm() and, if there is one, its getItems().
RECURSIVE RenderedBodies(_)
RenderedBodies(its) ==
    IF its = << >> THEN 0
    ELSE (IF Head(its).type # "PAGE_BREAK" /\ Head(its).title # << >> THEN 1 ELSE 0)
            + RenderedBodies(Tail(its))

---------------------------------------------------------------------------
(* exportForm.js: itemToObject, getFormMetadata, exportFormToJson.         *)

ChoiceTypes == { "LIST", "CHECKBOX", "MULTIPLE_CHOICE" }

\* getIndex() counting from 1.
getIndexFromOne(theItem, liveItems) == TargetIndexFrom(liveItems, theItem.id, 0) + 1

\* item.getIndex(): the item's position in the form as it is now.
getIndex(theItem, liveItems) == TargetIndexFrom(liveItems, theItem.id, 0)

\* isRequired with the catch block answering true.
isRequiredCatchTrue(theItem) ==
    IF theItem.required = "no method" THEN FALSE
    ELSE IF theItem.required = "throws" THEN TRUE
    ELSE theItem.required = "true"

\* Lines 84-92: typeof item.isRequired === "function", try, catch.
isRequired(theItem) ==
    IF theItem.required = "no method" THEN FALSE
    ELSE IF theItem.required = "throws" THEN FALSE
    ELSE theItem.required = "true"

\* Lines 105-113: the choice values, [] when getChoices() throws.
getChoices(theItem) ==
    IF theItem.getChoices = "throws" THEN << >>
    ELSE [k \in 1..Len(theItem.choices) |-> theItem.choices[k].value]

\* What itemToObject logs: line 111.
itemToObjectLogs(theItem) ==
    IF theItem.type \in ChoiceTypes /\ theItem.getChoices = "throws"
    THEN << [msg |-> "Error getting choices for item ", arg |-> theItem.id] >>
    ELSE << >>

\* The properties lines 76-95 set on data for every item.
CommonKeys == { "type", "title", "helpText", "id", "index", "isRequired", "points" }

\* The properties the switch of lines 101-149 sets on data.
SwitchKeys(theItem) ==
    CASE theItem.type \in ChoiceTypes -> { "choices", "hasOtherOption" }
      [] theItem.type = "SCALE" -> { "lowerBound", "upperBound", "leftLabel", "rightLabel" }
      [] theItem.type = "IMAGE" -> { "alignment", "imageBlob" }
      [] theItem.type = "PAGE_BREAK" -> { "pageNavigationType" }
      [] OTHER -> {}

\* data.alignment without the lines 151-154 for VIDEO items.
alignmentNoVideo(theItem) ==
    IF theItem.type = "IMAGE" THEN Given(theItem.alignment) ELSE Absent

\* data.alignment: set for IMAGE items (l.133) and for VIDEO items (l.152-154).
alignment(theItem) ==
    IF theItem.type \in { "IMAGE", "VIDEO" } THEN Given(theItem.alignment) ELSE Absent

\* The type-specific properties of data: those of the switch, and whatever
\* else lines 151-154 set.
VariantKeys(theItem) ==
    SwitchKeys(theItem)
        \cup (IF alignment(theItem) # Absent THEN { "alignment" } ELSE {})

\* item[itemTypeConstructorName]() (l.98-99) is a TypeError when the handle has
\* no method of the computed name; it is outside any try block.
itemToObjectThrows(theItem) ==
    theItem.downcast # itemTypeConstructorName(theItem.type)

\* itemToObject keeping the choices it read before getChoices() threw.
itemToObjectNoReset(theItem, liveItems) ==
    [type |-> theItem.type, title |-> theItem.title, helpText |-> theItem.helpText,
     id |-> theItem.id, index |-> getIndex(theItem, liveItems),
     isRequired |-> isRequired(theItem), points |-> 0,
     choices |-> IF theItem.type \in ChoiceTypes
                 THEN [k \in 1..Len(theItem.choices) |-> theItem.choices[k].value]
                 ELSE << >>,
     hasOtherOption |-> theItem.type \in ChoiceTypes /\ theItem.hasOther,
     pageNavigationType |-> IF theItem.type = "PAGE_BREAK" THEN theItem.nav.navType
                            ELSE "absent",
     lowerBound |-> IF theItem.type = "SCALE" THEN Given(theItem.lowerBound) ELSE Absent,
     upperBound |-> IF theItem.type = "SCALE" THEN Given(theItem.upperBound) ELSE Absent,
     leftLabel |-> IF theItem.type = "SCALE" THEN Given(theItem.leftLabel) ELSE Absent,
     rightLabel |-> IF theItem.type = "SCALE" THEN Given(theItem.rightLabel) ELSE Absent,
     alignment |-> alignment(theItem),
     imageBlob |-> IF theItem.type = "IMAGE" THEN Given(theItem.image) ELSE Absent,
     keys |-> CommonKeys \cup VariantKeys(theItem)]

itemToObject(theItem, liveItems) ==
    [type |-> theItem.type, title |-> theItem.title, helpText |-> theItem.helpText,
     id |-> theItem.id, index |-> getIndex(theItem, liveItems),
     isRequired |-> isRequired(theItem), points |-> 0,
     choices |-> IF theItem.type \in ChoiceTypes THEN getChoices(theItem) ELSE << >>,
     hasOtherOption |-> theItem.type \in ChoiceTypes /\ theItem.hasOther,
     pageNavigationType |-> IF theItem.type = "PAGE_BREAK" THEN theItem.nav.navType
                            ELSE "absent",
     lowerBound |-> IF theItem.type = "SCALE" THEN Given(theItem.lowerBound) ELSE Absent,
     upperBound |-> IF theItem.type = "SCALE" THEN Given(theItem.upperBound) ELSE Absent,
     leftLabel |-> IF theItem.type = "SCALE" THEN Given(theItem.leftLabel) ELSE Absent,
     rightLabel |-> IF theItem.type = "SCALE" THEN Given(theItem.rightLabel) ELSE Absent,
     alignment |-> alignment(theItem),
     imageBlob |-> IF theItem.type = "IMAGE" THEN Given(theItem.image) ELSE Absent,
     keys |-> CommonKeys \cup VariantKeys(theItem)]

\* form.getItems() inside getFormMetadata reads the form as it is now.
getFormMetadata(theForm, liveItems) ==
    [title |-> theForm.title, description |-> theForm.description,
     count |-> Len(liveItems)]

\* What items.map(itemToObject) logs, item after item.
RECURSIVE exportFormToJsonLogs(_)
exportFormToJsonLogs(its) ==
    IF its = << >> THEN << >>
    ELSE itemToObjectLogs(Head(its)) \o exportFormToJsonLogs(Tail(its))

\* items.map(itemToObject) has no try block: what itemToObject throws for one
\* item leaves exportFormToJson.
exportFormToJsonThrows(its) ==
    \E k \in 1..Len(its) : itemToObjectThrows(its[k])

\* var items = optionalItems || [];
exportFormToJsonNoFallback(formId, optionalForm, optionalItems, liveItems) ==
    LET theForm == IF optionalForm # Absent THEN optionalForm[1] ELSE TheForm
        its == IF optionalItems # Absent THEN optionalItems[1] ELSE << >>
    IN  [metadata |-> getFormMetadata(theForm, liveItems),
         items |-> [k \in 1..Len(its) |-> itemToObject(its[k], liveItems)],
         count |-> Len(its)]

exportFormToJson(formId, optionalForm, optionalItems, liveItems) ==
    LET theForm == IF optionalForm # Absent THEN optionalForm[1] ELSE TheForm
        its == IF optionalItems # Absent THEN optionalItems[1] ELSE liveItems
    IN  [metadata |-> getFormMetadata(theForm, liveItems),
         items |-> [k \in 1..Len(its) |-> itemToObject(its[k], liveItems)],
         count |-> Len(its)]

---------------------------------------------------------------------------
(* Code.js: the state of one execution, the Drive folder and the clock.    *)

FORM_ID == "FORM_ID"

NoOutcome ==
    [fetch |-> "none", json |-> "none", jsonSave |-> "none",
     md |-> "none", mdSave |-> "none"]

NavIdle == [fn |-> "none"]

\* No conversion is under way; no build step is running.
ConvIdle == [fn |-> "none"]
BuildIdle == [pc |-> "none"]

\* FormApp.getActiveForm(): null in a standalone script, the form the script
\* is bound to otherwise; its getItems() is read when the body is rendered.
ActiveItems == IF active = "same" THEN live
               ELSE IF active = "other" THEN OtherItems
               ELSE << >>

ActiveFetches(its) == IF active = "none" THEN 0 ELSE RenderedBodies(its)

\* The items an exporter works on: the given ones, or a fresh getItems().
Snapshot(optionalItems, liveItems) ==
    IF optionalItems # Absent THEN optionalItems[1] ELSE liveItems

\* Utilities.formatDate(new Date(), tz, "yyyy-MM-dd_HH-mm-ss"): whole seconds.
formatDate(t) == t \div TicksPerSecond

FileName(t, ext) == [stamp |-> formatDate(t), ext |-> ext]

Log(msg, arg) == [msg |-> msg, arg |-> arg]

\* saveToDrive_ without its try/catch: the sink's exception reaches the caller.
saveToDrive_NoCatch(fileName, content, sink) ==
    IF folderId = "" THEN << drive, << >>, "skipped", FALSE >>
    ELSE IF sink = "ok"
         THEN << Append(drive, [name |-> fileName, content |-> content]),
                 << Log("Saved to Drive: ", fileName),
                    Log("https://drive.google.com/drive/folders/", folderId) >>,
                 "saved", FALSE >>
         ELSE << drive, << >>, "failed", TRUE >>

\* saveToDrive_(fileName, content) with the sink answering `sink`:
\* << the folder's files, the lines logged, what became of the save,
\*    whether the sink's exception leaves the function >>.
saveToDrive_(fileName, content, sink) ==
    IF folderId = "" THEN << drive, << >>, "skipped", FALSE >>
    ELSE IF sink = "ok"
         THEN << Append(drive, [name |-> fileName, content |-> content]),
                 << Log("Saved to Drive: ", fileName),
                    Log("https://drive.google.com/drive/folders/", folderId) >>,
                 "saved", FALSE >>
         ELSE << drive, << Log("Error saving to Drive: ", "e.message") >>, "failed", FALSE >>

\* getFolderById or createFile throwing is the sink's answer "fail".
Sinks == { "ok", "fail" }

Call(fn, given, optionalItems, out) ==
    [fn |-> fn, given |-> given, its |-> Snapshot(optionalItems, live),
     live |-> live, out |-> out]

Init ==
    /\ live \in Forms
    /\ active \in { "none", "same", "other" }
    /\ folderId \in { "", "folder" }
    /\ now = 0
    /\ edits = 0
    /\ pc = "idle"
    /\ form = Absent
    /\ items = Absent
    /\ logs = << >>
    /\ drive = << >>
    /\ openByIdCalls = 0
    /\ getItemsCalls = 0
    /\ outcome = NoOutcome
    /\ calls = << >>
    /\ nav = NavIdle
    /\ conv = ConvIdle
    /\ build = BuildIdle

\* The shared fetch without the early return of its catch block.
RunExportAllFetchNoReturn ==
    /\ pc = "idle"
    /\ \E got \in { "ok", "openById throws", "getTitle throws", "getItems throws" } :
          /\ openByIdCalls' = 1
          /\ getItemsCalls' = IF got \in { "ok", "getItems throws" } THEN 1 ELSE 0
          /\ form' = IF got # "openById throws" THEN Given(TheForm) ELSE Absent
          /\ items' = IF got = "ok" THEN Given(live) ELSE Absent
          /\ logs' = << Log("Fetching form data...", "") >>
                       \o (IF got = "ok" THEN << >>
                           ELSE << Log("Error fetching form data: ", "e.message") >>)
          /\ outcome' = [NoOutcome EXCEPT !.fetch = IF got = "ok" THEN "ok" ELSE "failed"]
          /\ pc' = "json"
    /\ UNCHANGED << live, active, folderId, now, edits, drive, calls, nav, conv, build >>

\* runExportAll, the shared fetch: lines 69-80.
RunExportAllFetch ==
    /\ pc = "idle"
    /\ \E got \in { "ok", "openById throws", "getTitle throws", "getItems throws" } :
          LET opened == got # "openById throws"
              titled == got \in { "ok", "getItems throws" }
          IN  /\ openByIdCalls' = 1
              /\ getItemsCalls' = IF titled THEN 1 ELSE 0
              /\ form' = IF opened THEN Given(TheForm) ELSE Absent
              /\ items' = IF got = "ok" THEN Given(live) ELSE Absent
              /\ logs' = << Log("Fetching form data...", "") >>
                           \o (IF titled
                               THEN << Log("Form title: ", TheForm.title),
                                       Log("Fetching form items...", "") >>
                               ELSE << >>)
                           \o (IF got = "ok" THEN << >>
                               ELSE << Log("Error fetching form data: ", "e.message") >>)
              /\ outcome' = [NoOutcome EXCEPT !.fetch = IF got = "ok" THEN "ok" ELSE "failed"]
              /\ pc' = IF got = "ok" THEN "json" ELSE "done"
    /\ UNCHANGED << live, active, folderId, now, edits, drive, calls, nav, conv, build >>

\* The JSON export inside one try block with the Markdown export: what the
\* JSON export throws ends the run.
RunExportAllJsonOneTry ==
    /\ pc = "json"
    /\ \E threw \in BOOLEAN, sink \in Sinks :
          IF threw
          THEN /\ logs' = Append(logs, Log("Error exporting JSON: ", "e.message"))
               /\ outcome' = [outcome EXCEPT !.json = "threw"]
               /\ pc' = "done"
               /\ UNCHANGED << drive, calls, getItemsCalls >>
          ELSE \E json \in { exportFormToJson(FORM_ID, form, items, live) } :
               \E saved \in { saveToDrive_(FileName(now, ".json"), json, sink) } :
                   /\ getItemsCalls' = getItemsCalls + 1
                   /\ calls' = Append(calls, Call("json", TRUE, items, json))
                   /\ logs' = logs \o exportFormToJsonLogs(Snapshot(items, live))
                                   \o << Log("Total items exported: ", json.count),
                                          Log("preview", "json") >> \o saved[2]
                   /\ drive' = saved[1]
                   /\ outcome' = [outcome EXCEPT !.json = "ok", !.jsonSave = saved[3]]
                   /\ pc' = "md"
    /\ UNCHANGED << live, active, folderId, now, edits, form, items, openByIdCalls, nav, conv, build >>

\* runExportAll, the JSON export: lines 82-96.
RunExportAllJson ==
    /\ pc = "json"
    /\ \E threw \in BOOLEAN, sink \in Sinks :
          IF threw
          THEN /\ logs' = Append(logs, Log("Error exporting JSON: ", "e.message"))
               /\ outcome' = [outcome EXCEPT !.json = "threw"]
               /\ UNCHANGED << drive, calls, getItemsCalls >>
          ELSE \E json \in { exportFormToJson(FORM_ID, form, items, live) } :
               \E saved \in { saveToDrive_(FileName(now, ".json"), json, sink) } :
                   /\ getItemsCalls' = getItemsCalls + 1
                   /\ calls' = Append(calls, Call("json", TRUE, items, json))
                   /\ logs' = logs \o exportFormToJsonLogs(Snapshot(items, live))
                                   \o << Log("Total items exported: ", json.count),
                                          Log("preview", "json") >> \o saved[2]
                                   \o (IF saved[4]
                                       THEN << Log("Error exporting JSON: ", "e.message") >>
                                       ELSE << >>)
                   /\ drive' = saved[1]
                   /\ outcome' = [outcome EXCEPT !.json = "ok", !.jsonSave = saved[3]]
    /\ pc' = "md"
    /\ UNCHANGED << live, active, folderId, now, edits, form, items, openByIdCalls, nav, conv, build >>

\* runExportAll, the Markdown export: lines 98-109.
RunExportAllMarkdown ==
    /\ pc = "md"
    /\ \E threw \in { exportFormToMarkdownThrows(Snapshot(items, live)), TRUE }, sink \in Sinks :
          IF threw
          THEN /\ logs' = Append(logs, Log("Error exporting Markdown: ", "e.message"))
               /\ outcome' = [outcome EXCEPT !.md = "threw"]
               /\ UNCHANGED << drive, calls, getItemsCalls >>
          ELSE \E md \in { exportFormToMarkdown(FORM_ID, form, items, live, ActiveItems) } :
               \E saved \in { saveToDrive_(FileName(now, ".md"), md, sink) } :
                   /\ getItemsCalls' = getItemsCalls + ActiveFetches(Snapshot(items, live))
                   /\ calls' = Append(calls, Call("md", TRUE, items, md))
                   /\ logs' = logs \o << Log("preview", "md") >> \o saved[2]
                                   \o (IF saved[4]
                                       THEN << Log("Error exporting Markdown: ", "e.message") >>
                                       ELSE << >>)
                   /\ drive' = saved[1]
                   /\ outcome' = [outcome EXCEPT !.md = "ok", !.mdSave = saved[3]]
    /\ pc' = "done"
    /\ UNCHANGED << live, active, folderId, now, edits, form, items, openByIdCalls, nav, conv, build >>

\* runExportToJSON: lines 118-129.  Nothing catches what the export throws.
RunExportToJSON ==
    /\ pc = "idle"
    /\ \E threw \in BOOLEAN, sink \in Sinks :
          IF threw
          THEN /\ outcome' = [NoOutcome EXCEPT !.json = "threw"]
               /\ openByIdCalls' = 1
               /\ UNCHANGED << drive, calls, logs, getItemsCalls >>
          ELSE \E json \in { exportFormToJson(FORM_ID, Absent, Absent, live) } :
               \E saved \in { saveToDrive_(FileName(now, ".json"), json, sink) } :
                   /\ openByIdCalls' = 1
                   /\ getItemsCalls' = 2
                   /\ calls' = Append(calls, Call("json", FALSE, Absent, json))
                   /\ logs' = exportFormToJsonLogs(live)
                                   \o << Log("Total items exported: ", json.count),
                                          Log("stringified", "json") >> \o saved[2]
                   /\ drive' = saved[1]
                   /\ outcome' = [NoOutcome EXCEPT !.json = "ok", !.jsonSave = saved[3]]
    /\ pc' = "done"
    /\ UNCHANGED << live, active, folderId, now, edits, form, items, nav, conv, build >>

\* runExportToMarkdown: lines 137-145.
RunExportToMarkdown ==
    /\ pc = "idle"
    /\ \E threw \in { exportFormToMarkdownThrows(live), TRUE }, sink \in Sinks :
          IF threw
          THEN /\ outcome' = [NoOutcome EXCEPT !.md = "threw"]
               /\ openByIdCalls' = 1
               /\ UNCHANGED << drive, calls, logs, getItemsCalls >>
          ELSE \E md \in { exportFormToMarkdown(FORM_ID, Absent, Absent, live, ActiveItems) } :
               \E saved \in { saveToDrive_(FileName(now, ".md"), md, sink) } :
                   /\ openByIdCalls' = 1
                   /\ getItemsCalls' = 1 + ActiveFetches(live)
                   /\ calls' = Append(calls, Call("md", FALSE, Absent, md))
                   /\ logs' = << Log("md", "md") >> \o saved[2]
                   /\ drive' = saved[1]
                   /\ outcome' = [NoOutcome EXCEPT !.md = "ok", !.mdSave = saved[3]]
    /\ pc' = "done"
    /\ UNCHANGED << live, active, folderId, now, edits, form, items, nav, conv, build >>

\* The clock advances while the script runs.
Tick ==
    /\ now < MaxTime
    /\ now' = now + 1
    /\ UNCHANGED << live, active, folderId, edits, pc, form, items, logs, drive,
                    openByIdCalls, getItemsCalls, outcome, calls, nav, conv, build >>

Next ==
    \/ RunExportAllFetch
    \/ RunExportAllJson
    \/ RunExportAllMarkdown
    \/ RunExportToJSON
    \/ RunExportToMarkdown
    \/ Tick

\* One execution of an entry point of Code.js.
Spec == Init /\ [][Next]_vars

---------------------------------------------------------------------------
(* The exporters as a caller uses them (exportForm.js lines 260-272 and    *)
(* 318-330): with a form and items fetched before, or with the id alone,   *)
(* while other editors of the form may change it between the calls.        *)

InitApi ==
    /\ live \in Forms
    /\ active \in { "none", "same", "other" }
    /\ folderId = "folder"
    /\ now = 0
    /\ edits = 0
    /\ pc = "api"
    /\ form = Absent
    /\ items = Absent
    /\ logs = << >>
    /\ drive = << >>
    /\ openByIdCalls = 0
    /\ getItemsCalls = 0
    /\ outcome = NoOutcome
    /\ calls = << >>
    /\ nav = NavIdle
    /\ conv = ConvIdle
    /\ build = BuildIdle

ApiFrame == << active, folderId, now, pc, drive, openByIdCalls, getItemsCalls, nav, conv, build >>

\* var form = FormApp.openById(id); var items = form.getItems();
FetchSnapshot ==
    /\ pc = "api"
    /\ items = Absent
    /\ form' = Given(TheForm)
    /\ items' = Given(live)
    /\ UNCHANGED << live, edits, calls, logs, outcome >>
    /\ UNCHANGED ApiFrame

\* A caller compares two calls: a call reads the form and changes nothing,
\* so whatever two calls can return one after the other, the first two can.
CanCall == pc = "api" /\ Len(calls) < 2

Record(call) == Append(calls, call)

\* exportFormToJson(id) or exportFormToJson(id, form, items)
CallExportFormToJson ==
    /\ CanCall
    /\ \E prefetched \in BOOLEAN :
          /\ prefetched => items # Absent
          /\ \E optionalForm \in { IF prefetched THEN form ELSE Absent },
                optionalItems \in { IF prefetched THEN items ELSE Absent } :
                IF exportFormToJsonThrows(Snapshot(optionalItems, live))
                THEN /\ outcome' = [outcome EXCEPT !.json = "threw"]
                     /\ UNCHANGED << calls, logs >>
                ELSE \E json \in { exportFormToJson(FORM_ID, optionalForm, optionalItems,
                                                    live) } :
                         /\ calls' = Record(Call("json", prefetched, optionalItems, json))
                         /\ logs' = logs \o exportFormToJsonLogs(Snapshot(optionalItems, live))
                         /\ UNCHANGED outcome
    /\ UNCHANGED << live, edits, form, items >>
    /\ UNCHANGED ApiFrame

\* exportFormToMarkdown(id) or exportFormToMarkdown(id, form, items)
CallExportFormToMarkdown ==
    /\ CanCall
    /\ \E prefetched \in BOOLEAN :
          /\ prefetched => items # Absent
          /\ \E optionalForm \in { IF prefetched THEN form ELSE Absent },
                optionalItems \in { IF prefetched THEN items ELSE Absent } :
                IF exportFormToMarkdownThrows(Snapshot(optionalItems, live))
                THEN /\ outcome' = [outcome EXCEPT !.md = "threw"]
                     /\ UNCHANGED calls
                ELSE \E md \in { exportFormToMarkdown(FORM_ID, optionalForm, optionalItems,
                                                       live, ActiveItems) } :
                         /\ calls' = Record(Call("md", prefetched, optionalItems, md))
                         /\ UNCHANGED outcome
    /\ UNCHANGED << live, edits, form, items, logs >>
    /\ UNCHANGED ApiFrame

\* Another editor of the form adds a question, at the top or at the bottom.
EditForm ==
    /\ edits < MaxEdits
    /\ edits' = edits + 1
    /\ \E p \in { 0, Len(live) } :
          live' = InsertAt(live, p, [QAdded EXCEPT !.id = QAdded.id + edits])
    /\ UNCHANGED << form, items, calls, logs, outcome >>
    /\ UNCHANGED ApiFrame

NextApi ==
    \/ FetchSnapshot
    \/ CallExportFormToJson
    \/ CallExportFormToMarkdown
    \/ EditForm

SpecApi == InitApi /\ [][NextApi]_vars

---------------------------------------------------------------------------
(* The section map and the navigation resolvers of toMarkdown.js applied   *)
(* to item lists and directives drawn from bounded sets.  The resolvers    *)
(* get a list to search (allItems) and a section map built from a list     *)
(* (its); renderItemBodyMarkdown passes two different lists.               *)

PBBlank == Item(9, "PAGE_BREAK", << >>, "RESTART", 0, << >>, FALSE)

NavPool == { PBIntro, PBEnd, PBBlank, QName }

NavLists ==
    { l \in SeqsUpTo(NavPool, MaxNavItems) :
        \A i, j \in 1..Len(l) : l[i].id = l[j].id => i = j }

\* Ids a handle can carry: those of the pool and one of no item at all.
NavIds == { it.id : it \in NavPool } \cup { 99 }

Directives ==
    { [navType |-> t, goto |-> 0] : t \in { "CONTINUE", "SUBMIT", "RESTART", "GO_TO_PAGE" } }
        \cup { [navType |-> "GO_TO_PAGE", goto |-> t] : t \in NavIds }

InitNav ==
    /\ live = << >>
    /\ active = "none"
    /\ folderId = "folder"
    /\ now = 0
    /\ edits = 0
    /\ pc = "nav"
    /\ form = Absent
    /\ items = Absent
    /\ logs = << >>
    /\ drive = << >>
    /\ openByIdCalls = 0
    /\ getItemsCalls = 0
    /\ outcome = NoOutcome
    /\ calls = << >>
    /\ conv = ConvIdle
    /\ build = BuildIdle
    /\ \E its \in NavLists, allItems \in NavLists, d \in Directives :
          nav = [fn |-> "input", its |-> its, allItems |-> allItems,
                 navType |-> d.navType, navItem |-> d.goto,
                 sectionMap |-> NoSections, text |-> << >>]

NavFrame == << live, active, folderId, now, edits, pc, form, items, logs, drive,
               openByIdCalls, getItemsCalls, outcome, calls, conv, build >>

ApplyBuildSectionMap ==
    /\ nav.fn = "input"
    /\ nav' = [nav EXCEPT !.fn = "buildSectionMap",
                          !.sectionMap = buildSectionMap(nav.its)]
    /\ UNCHANGED NavFrame

ApplyGetNavigationText ==
    /\ nav.fn = "input"
    /\ nav' = [nav EXCEPT !.fn = "getNavigationText",
                          !.sectionMap = buildSectionMap(nav.its),
                          !.text = getNavigationText(nav.navType, nav.navItem, nav.allItems,
                                                     buildSectionMap(nav.its))]
    /\ UNCHANGED NavFrame

ApplyGetDefaultSectionNavigation ==
    /\ nav.fn = "input"
    /\ nav' = [nav EXCEPT !.fn = "getDefaultSectionNavigation",
                          !.sectionMap = buildSectionMap(nav.its),
                          !.text = getDefaultSectionNavigation(
                                       Item(50, "PAGE_BREAK", << "Here" >>, nav.navType,
                                            nav.navItem, << >>, FALSE),
                                       nav.allItems, buildSectionMap(nav.its))]
    /\ UNCHANGED NavFrame

NextNav ==
    \/ ApplyBuildSectionMap
    \/ ApplyGetNavigationText
    \/ ApplyGetDefaultSectionNavigation

SpecNav == InitNav /\ [][NextNav]_vars

---------------------------------------------------------------------------
(* exportFormToMarkdown applied to item lists drawn from a bounded set,    *)
(* once to the items of the form and once more, by a caller that filters   *)
(* the items it fetched, to the same items less one that has no title.     *)

\* A page break without a title that continues to the next section.
\* A page break without a title whose description is filled in.
PBQuiet ==
    [Item(10, "PAGE_BREAK", << >>, "CONTINUE", 0, << >>, FALSE)
        EXCEPT !.helpText = << "Read ", "<i>", "on", "</i>" >>]
\* A titled page break with a description, after which the form goes to this
\* page break again.
PBSelf ==
    [Item(21, "PAGE_BREAK", << "Self" >>, "GO_TO_PAGE", 21, << >>, FALSE)
        EXCEPT !.helpText = << "Once ", "<b>", "more", "</b>" >>]
\* A page break after which the form goes to the page break without a title.
PBSkip == Item(22, "PAGE_BREAK", << "Skip" >>, "GO_TO_PAGE", 10, << >>, FALSE)

ProsePool ==
    { PBIntro, PBEnd, PBBold, PBBlank, PBQuiet, PBSelf, PBSkip, QName, QPick, QBlank }

ProseLists == { its \in SeqsUpTo(ProsePool, MaxProseItems) : WellFormed(its) }

RemoveAt(s, k) == SubSeq(s, 1, k - 1) \o SubSeq(s, k + 1, Len(s))

InitProse ==
    /\ live \in ProseLists
    /\ active \in { "none", "same", "other" }
    /\ folderId = "folder"
    /\ now = 0
    /\ edits = 0
    /\ pc = "prose"
    /\ form = Absent
    /\ items = Absent
    /\ logs = << >>
    /\ drive = << >>
    /\ openByIdCalls = 0
    /\ getItemsCalls = 0
    /\ outcome = NoOutcome
    /\ calls = << >>
    /\ nav = NavIdle
    /\ conv = ConvIdle
    /\ build = BuildIdle

ProseFrame == << live, active, folderId, now, edits, pc, logs, drive, openByIdCalls,
                 getItemsCalls, outcome, nav, conv, build >>

\* var md = exportFormToMarkdown(id);
ApplyExportFormToMarkdown ==
    /\ pc = "prose"
    /\ calls = << >>
    /\ \E md \in { exportFormToMarkdown(FORM_ID, Absent, Absent, live, ActiveItems) } :
          calls' = << Call("md", FALSE, Absent, md) >>
    /\ UNCHANGED << form, items >>
    /\ UNCHANGED ProseFrame

\* var form = FormApp.openById(id); var items = form.getItems() less one item
\* that is no page break and has no title; exportFormToMarkdown(id, form, items)
ApplyExportFormToMarkdownWithout ==
    /\ pc = "prose"
    /\ Len(calls) = 1
    /\ \E k \in 1..Len(live) :
          /\ live[k].type # "PAGE_BREAK"
          /\ live[k].title = << >>
          /\ form' = Given(TheForm)
          /\ items' = Given(RemoveAt(live, k))
          /\ \E md \in { exportFormToMarkdown(FORM_ID, form', items', live, ActiveItems) } :
                calls' = Append(calls, Call("md", TRUE, items', md))
    /\ UNCHANGED ProseFrame

NextProse ==
    \/ ApplyExportFormToMarkdown
    \/ ApplyExportFormToMarkdownWithout

SpecProse == InitProse /\ [][NextProse]_vars

---------------------------------------------------------------------------
(* The exporters on the item types: SpecVariants.  The form holds up to    *)
(* MaxVariantItems items, among them choice items with and without the     *)
(* "Other" option, a scale, an image, a video, a date and a date-time      *)
(* question; both exporters are called on it.                              *)

\* A single-choice question without the "Other" option.
QOne ==
    Item(12, "MULTIPLE_CHOICE", << "One" >>, "NONE", 0,
         << Choice(<< "<i>", "A", "</i>" >>, "CONTINUE", 0),
            Choice(<< "B" >>, "SUBMIT", 0) >>,
         FALSE)
QDate == Item(13, "DATE", << "Day" >>, "NONE", 0, << >>, FALSE)
\* The handle of a date-time question: its type tag is DATETIME, the method
\* that returns the typed item is asDateTimeItem.
QWhen ==
    [Item(14, "DATETIME", << "When" >>, "NONE", 0, << >>, FALSE)
        EXCEPT !.downcast = << "as", "Date", "Time", "Item" >>]
QScale ==
    [Item(15, "SCALE", << "Rate" >>, "NONE", 0, << >>, FALSE)
        EXCEPT !.lowerBound = 1, !.upperBound = 5, !.leftLabel = << "Low" >>]
\* Image and video items are no questions: they have no isRequired method.
QImage ==
    [Item(17, "IMAGE", << "Logo" >>, "NONE", 0, << >>, FALSE)
        EXCEPT !.required = "no method", !.alignment = "CENTER"]
QVideo ==
    [Item(18, "VIDEO", << "Clip" >>, "NONE", 0, << >>, FALSE)
        EXCEPT !.required = "no method", !.alignment = "RIGHT"]

VariantPool ==
    { PBIntro, PBEnd, QName, QPick, QOne, QDrop, QDate, QWhen, QScale, QImage, QVideo }

VariantLists == { its \in SeqsUpTo(VariantPool, MaxVariantItems) : WellFormed(its) }

InitVariants ==
    /\ live \in VariantLists
    /\ active \in { "none", "same", "other" }
    /\ folderId = "folder"
    /\ now = 0
    /\ edits = 0
    /\ pc = "api"
    /\ form = Absent
    /\ items = Absent
    /\ logs = << >>
    /\ drive = << >>
    /\ openByIdCalls = 0
    /\ getItemsCalls = 0
    /\ outcome = NoOutcome
    /\ calls = << >>
    /\ nav = NavIdle
    /\ conv = ConvIdle
    /\ build = BuildIdle

NextVariants ==
    \/ CallExportFormToJson
    \/ CallExportFormToMarkdown

SpecVariants == InitVariants /\ [][NextVariants]_vars

---------------------------------------------------------------------------
(* convertToMarkdown called on its own: SpecText.  The argument is a text  *)
(* of up to MaxTextLen tokens over one of the alphabets below, or an       *)
(* absent value; the function is applied to it and then to its own result. *)

JsNull == [kind |-> "null"]
JsUndefined == [kind |-> "undefined"]
JsString(text) == [kind |-> "string", text |-> text]

TextAlphabets ==
    { { "x", "\n", "<b>", "</b>", "<i>", "</i>" },
      { "x", "<a href=\"", "\">", "</a>", "<b>", "</b>" },
      { "x", "y", "<u>", "</u>", "<em>" },
      { "x", "<br>", "<br/>", "<br />", "<b>", "</b>" } }

\* The texts of up to n tokens over one of the alphabets.
Texts(n) == UNION { [1..k -> A] : k \in 0..n, A \in TextAlphabets }

TextArguments(n) == { JsNull, JsUndefined } \cup { JsString(t) : t \in Texts(n) }

\* The call without the guard of its first line: null.replace is a TypeError.
convertToMarkdownCallNoGuard(arg) ==
    IF arg.kind # "string"
    THEN [threw |-> TRUE, text |-> << >>]
    ELSE [threw |-> FALSE, text |-> convertToMarkdown(arg.text)]

\* convertToMarkdown(arg) for a JavaScript value: !text holds for null,
\* undefined and the empty string; String.prototype.replace does not throw.
convertToMarkdownCall(arg) ==
    IF arg.kind # "string"
    THEN [threw |-> FALSE, text |-> << >>]
    ELSE [threw |-> FALSE, text |-> convertToMarkdown(arg.text)]

NoResult == [threw |-> FALSE, text |-> << >>]

InitText ==
    /\ live = << >>
    /\ active = "none"
    /\ folderId = "folder"
    /\ now = 0
    /\ edits = 0
    /\ pc = "text"
    /\ form = Absent
    /\ items = Absent
    /\ logs = << >>
    /\ drive = << >>
    /\ openByIdCalls = 0
    /\ getItemsCalls = 0
    /\ outcome = NoOutcome
    /\ calls = << >>
    /\ nav = NavIdle
    /\ build = BuildIdle
    /\ \E arg \in TextArguments(MaxTextLen) :
          conv = [fn |-> "input", arg |-> arg, once |-> NoResult, twice |-> NoResult]

TextFrame == << live, active, folderId, now, edits, pc, form, items, logs, drive,
                openByIdCalls, getItemsCalls, outcome, calls, nav, build >>

\* var md = convertToMarkdown(arg);
ApplyConvertToMarkdown ==
    /\ conv.fn = "input"
    /\ conv' = [conv EXCEPT !.fn = "convertToMarkdown",
                            !.once = convertToMarkdownCall(conv.arg)]
    /\ UNCHANGED TextFrame

\* var again = convertToMarkdown(md);
ApplyConvertToMarkdownAgain ==
    /\ conv.fn = "convertToMarkdown"
    /\ ~conv.once.threw
    /\ conv' = [conv EXCEPT !.fn = "convertToMarkdown twice",
                            !.twice = convertToMarkdownCall(JsString(conv.once.text))]
    /\ UNCHANGED TextFrame

NextText ==
    \/ ApplyConvertToMarkdown
    \/ ApplyConvertToMarkdownAgain

SpecText == InitText /\ [][NextText]_vars

---------------------------------------------------------------------------
(* scripts/inject-env.js, the build step: SpecBuild.  The file holds two   *)
(* versions of the script: the one that rewrites src/Code.js in place      *)
(* (l.1-46) and the one that copies src/ to tmp/dist and rewrites          *)
(* tmp/dist/Code.js (l.48-114).  A line of .env is the sequence of the     *)
(* pieces line.split('=') gives; a value is the sequence of the pieces     *)
(* that valueParts.join('=') joins.  Every call of fs is one step.         *)

\* line.trim(), key.trim() and value.trim() on the pieces of the model.
trim(piece) ==
    CASE piece = "EXPORT_FOLDER_ID " -> "EXPORT_FOLDER_ID"
      [] piece = " dir1" -> "dir1"
      [] piece = "  " -> ""
      [] OTHER -> piece

\* line.startsWith('#')
startsWithHash(piece) == piece = "# ids"

\* The lines a .env file is made of: a comment, an empty line, a line of
\* blanks, NAME=value, NAME= , NAME alone, padded pieces, a value with "=".
EnvLinePool ==
    { << "# ids" >>, << "" >>, << "FORM_ID", "form1" >>, << "FORM_ID", "" >>,
      << "FORM_ID" >>, << "FORM_ID", "a", "b" >>, << "EXPORT_FOLDER_ID", "  " >>,
      << "EXPORT_FOLDER_ID ", " dir1" >> }

EnvFiles == { Absent } \cup { Given(f) : f \in SeqsUpTo(EnvLinePool, MaxEnvLines) }

\* valueParts.join('=').trim(): the pieces, the outer ones trimmed.
JoinTrim(valueParts) ==
    [k \in 1..Len(valueParts) |->
        IF k = 1 \/ k = Len(valueParts) THEN trim(valueParts[k]) ELSE valueParts[k]]

\* Lines 64-73: the variables of .env, later lines overriding earlier ones;
\* only FORM_ID and EXPORT_FOLDER_ID are read afterwards.
RECURSIVE ParseEnvFrom(_, _, _)
ParseEnvFrom(lines, k, envVars) ==
    IF k > Len(lines) THEN envVars
    ELSE LET line == lines[k]
             skipped == (Len(line) = 1 /\ trim(line[1]) = "") \/ startsWithHash(line[1])
             key == line[1]
             valueParts == Tail(line)
         IN  IF ~skipped /\ key # "" /\ Len(valueParts) > 0
             THEN ParseEnvFrom(lines, k + 1,
                               [envVars EXCEPT ![trim(key)] = Given(JoinTrim(valueParts))])
             ELSE ParseEnvFrom(lines, k + 1, envVars)

NoEnvVars == [FORM_ID |-> Absent, EXPORT_FOLDER_ID |-> Absent]

\* !envVars[v]: undefined or the empty string.
IsMissing(envVars, v) == envVars[v] = Absent \/ envVars[v] = Given(<< "" >>)

\* requiredVars.filter(v => !envVars[v])
missingVars(envVars) ==
    { v \in { "FORM_ID", "EXPORT_FOLDER_ID" } : IsMissing(envVars, v) }

\* Code.js as it is in src/: the values of its two configuration lines.
CodeJs == [kind |-> "file", content |-> << << "{{FORM_ID}}" >>, << "{{EXPORT_FOLDER_ID}}" >> >>]
OtherJs == [kind |-> "file", content |-> << << "exportFormToJson" >> >>]
Directory == [kind |-> "dir", content |-> << >>]

\* src/ holds Code.js and exportForm.js, and a directory in some checkouts.
SrcDirs ==
    { ("Code.js" :> CodeJs) @@ ("exportForm.js" :> OtherJs),
      ("Code.js" :> CodeJs) @@ ("exportForm.js" :> OtherJs) @@ ("lib" :> Directory) }

\* tmp/dist before the script runs: not there, or left by an earlier build.
StaleDist == ("Old.js" :> OtherJs)

\* Lines 108-109 (40-41): the two placeholders replaced by the values.
inject(code, envVars) ==
    [code EXCEPT !.content =
        << IF @[1] = << "{{FORM_ID}}" >> THEN envVars.FORM_ID[1] ELSE @[1],
           IF @[2] = << "{{EXPORT_FOLDER_ID}}" >> THEN envVars.EXPORT_FOLDER_ID[1] ELSE @[2] >>]

\* The files of a directory: fs.statSync(p).isFile()
Files(dir) == { f \in DOMAIN dir : dir[f].kind = "file" }

InitBuild ==
    /\ live = << >>
    /\ active = "none"
    /\ folderId = "folder"
    /\ now = 0
    /\ edits = 0
    /\ pc = "build"
    /\ form = Absent
    /\ items = Absent
    /\ logs = << >>
    /\ drive = << >>
    /\ openByIdCalls = 0
    /\ getItemsCalls = 0
    /\ outcome = NoOutcome
    /\ calls = << >>
    /\ nav = NavIdle
    /\ conv = ConvIdle
    /\ \E version \in { "in place", "tmp/dist" }, env \in EnvFiles, src \in SrcDirs,
          dist \in { Absent, Given(StaleDist) } :
          build = [pc |-> "start", version |-> version, env |-> env, src |-> src,
                   dist |-> dist, envVars |-> NoEnvVars, ops |-> << >>, exit |-> Absent]

BuildFrame == << live, active, folderId, now, edits, pc, form, items, logs, drive,
                 openByIdCalls, getItemsCalls, outcome, calls, nav, conv >>

\* Lines 54-58 (7-11): process.exit(1) when .env is not there.
InjectEnvLoad ==
    /\ build.pc = "start"
    /\ build' = IF build.env = Absent
                THEN [build EXCEPT !.pc = "exit", !.exit = Given(1)]
                ELSE [build EXCEPT !.pc = "loaded"]
    /\ UNCHANGED BuildFrame

\* Lines 61-73 (14-26)
InjectEnvParse ==
    /\ build.pc = "loaded"
    /\ build' = [build EXCEPT !.pc = "parsed",
                              !.envVars = ParseEnvFrom(build.env[1], 1, NoEnvVars)]
    /\ UNCHANGED BuildFrame

\* Lines 76-82 (29-35): process.exit(1) when a required variable is missing.
InjectEnvValidate ==
    /\ build.pc = "parsed"
    /\ build' = IF missingVars(build.envVars) # {}
                THEN [build EXCEPT !.pc = "exit", !.exit = Given(1)]
                ELSE [build EXCEPT !.pc = "validated"]
    /\ UNCHANGED BuildFrame

\* Lines 38-46, in-place version: src/Code.js is read, changed and written.
InjectEnvRewriteSource ==
    /\ build.pc = "validated"
    /\ build.version = "in place"
    /\ build' = [build EXCEPT !.pc = "exit", !.exit = Given(0),
                              !.src["Code.js"] = inject(@, build.envVars),
                              !.ops = Append(@, << "writeFileSync", "src", "Code.js" >>)]
    /\ UNCHANGED BuildFrame

\* Lines 85-89: an existing tmp/dist is removed.
InjectEnvCleanDist ==
    /\ build.pc = "validated"
    /\ build.version = "tmp/dist"
    /\ build' = IF build.dist # Absent
                THEN [build EXCEPT !.pc = "cleaned", !.dist = Absent,
                                   !.ops = Append(@, << "rmSync", "tmp/dist", "" >>)]
                ELSE [build EXCEPT !.pc = "cleaned"]
    /\ UNCHANGED BuildFrame

\* Line 90
InjectEnvMakeDist ==
    /\ build.pc = "cleaned"
    /\ build' = [build EXCEPT !.pc = "made", !.dist = Given(<< >>),
                              !.ops = Append(@, << "mkdirSync", "tmp/dist", "" >>)]
    /\ UNCHANGED BuildFrame

\* Lines 93-103: one file of src/ is copied, in whatever order readdirSync
\* lists them; what is no file is passed over.
InjectEnvCopy ==
    /\ build.pc = "made"
    /\ \E file \in Files(build.src) \ DOMAIN build.dist[1] :
          build' = [build EXCEPT !.dist = Given(@[1] @@ (file :> build.src[file])),
                                 !.ops = Append(@, << "copyFileSync", "tmp/dist", file >>)]
    /\ UNCHANGED BuildFrame

\* Lines 106-114: tmp/dist/Code.js is read, changed and written.
InjectEnvRewriteDist ==
    /\ build.pc = "made"
    /\ Files(build.src) \subseteq DOMAIN build.dist[1]
    /\ build' = [build EXCEPT !.pc = "exit", !.exit = Given(0),
                              !.dist = Given([@[1] EXCEPT !["Code.js"] =
                                                 inject(@, build.envVars)]),
                              !.ops = Append(@, << "writeFileSync", "tmp/dist", "Code.js" >>)]
    /\ UNCHANGED BuildFrame

NextBuild ==
    \/ InjectEnvLoad
    \/ InjectEnvParse
    \/ InjectEnvValidate
    \/ InjectEnvRewriteSource
    \/ InjectEnvCleanDist
    \/ InjectEnvMakeDist
    \/ InjectEnvCopy
    \/ InjectEnvRewriteDist

SpecBuild == InitBuild /\ [][NextBuild]_vars

---------------------------------------------------------------------------
(* Properties.                                                             *)

ErrorMessages ==
    { "Error fetching form data: ", "Error exporting JSON: ",
      "Error exporting Markdown: ", "Error saving to Drive: " }

IsError(entry) == entry.msg \in ErrorMessages

Logged(msg) == Cardinality({ k \in DOMAIN logs : logs[k].msg = msg })

HasFile(ext) == \E k \in DOMAIN drive : drive[k].name.ext = ext

PageBreakPositions(its) ==
    { i \in 0..(Len(its) - 1) : its[i + 1].type = "PAGE_BREAK" }

\* The number of page breaks at positions 0..i.
PageBreaksUpTo(its, i) == Cardinality({ j \in PageBreakPositions(its) : j <= i })

PositionsOfId(its, id) == { i \in 0..(Len(its) - 1) : its[i + 1].id = id }

IsSuffix(suf, s) ==
    /\ Len(suf) <= Len(s)
    /\ SubSeq(s, Len(s) - Len(suf) + 1, Len(s)) = suf

IsPrefix(pre, s) == Len(pre) <= Len(s) /\ SubSeq(s, 1, Len(pre)) = pre

\* C1: the record exportFormToJson returns has count = metadata.count =
\* length(items), for every form and items it is given or fetches itself.
C1_CountsAgree ==
    \A k \in DOMAIN calls :
        calls[k].fn = "json" =>
            /\ calls[k].out.count = Len(calls[k].out.items)
            /\ calls[k].out.count = calls[k].out.metadata.count

\* C2: a runExportAll that fetched its snapshot has called FormApp.openById
\* once and getItems once when it ends, the calls inside the exporters counted.
C2_FetchedOnce ==
    (pc = "done" /\ outcome.fetch = "ok") =>
        (openByIdCalls = 1 /\ getItemsCalls = 1)

\* C3: when the shared fetch of runExportAll fails, the run is over: neither
\* exporter was invoked, no file is stored and the only error logged, once, is
\* the fetch error.
C3_AcquisitionFailureAbortsBoth ==
    outcome.fetch = "failed" =>
        /\ pc = "done"
        /\ outcome.json = "none" /\ outcome.md = "none"
        /\ calls = << >>
        /\ drive = << >>
        /\ SelectSeq(logs, IsError) = << Log("Error fetching form data: ", "e.message") >>

C3_Witness ==
    /\ pc = "done"
    /\ outcome.fetch = "failed"
    /\ form # Absent
    /\ getItemsCalls = 1

\* C4: in runExportAll after a successful fetch, a JSON export that throws is
\* logged once and the Markdown export still runs, its file stored whenever its
\* own export and save succeed; a Markdown export that throws is logged once
\* and leaves a JSON file stored before in the folder.
C4_ExportsFailIndependently ==
    /\ (outcome.fetch = "ok" /\ outcome.json = "threw") =>
            /\ Logged("Error exporting JSON: ") = 1
            /\ pc \in { "md", "done" }
            /\ pc = "done" =>
                    /\ outcome.md \in { "ok", "threw" }
                    /\ outcome.md = "ok" =>
                            /\ \E k \in DOMAIN calls : calls[k].fn = "md"
                            /\ outcome.mdSave = "saved" <=> HasFile(".md")
                            /\ outcome.mdSave = "saved" <=> folderId # "" /\ Logged("Error saving to Drive: ") = 0
    /\ (outcome.fetch = "ok" /\ outcome.md = "threw") =>
            /\ Logged("Error exporting Markdown: ") = 1
            /\ outcome.jsonSave = "saved" => HasFile(".json")

C4_Witness ==
    /\ pc = "done"
    /\ outcome.fetch = "ok"
    /\ outcome.json = "threw"
    /\ HasFile(".md")
    /\ ~HasFile(".json")

\* C5: a save that fails is logged as a save error, once per failed save, and
\* never as a failure of the export whose result was being saved; in
\* runExportAll a failed save of the JSON file is followed by the Markdown
\* export and its save, and a failed save of the Markdown file leaves the JSON
\* file saved before in the folder.
C5_SinkFailuresStayLocal ==
    /\ Logged("Error saving to Drive: ")
            = (IF outcome.jsonSave = "failed" THEN 1 ELSE 0)
              + (IF outcome.mdSave = "failed" THEN 1 ELSE 0)
    /\ outcome.json = "ok" => Logged("Error exporting JSON: ") = 0
    /\ outcome.md = "ok" => Logged("Error exporting Markdown: ") = 0
    /\ (outcome.fetch = "ok" /\ outcome.jsonSave = "failed") =>
            /\ pc \in { "md", "done" }
            /\ pc = "done" =>
                    /\ outcome.md \in { "ok", "threw" }
                    /\ outcome.mdSave = "saved" => HasFile(".md")
    /\ (outcome.mdSave = "failed" /\ outcome.jsonSave = "saved") => HasFile(".json")

C5_Witness ==
    /\ pc = "done"
    /\ outcome.fetch = "ok"
    /\ outcome.jsonSave = "failed"
    /\ outcome.mdSave = "saved"
    /\ HasFile(".md")

\* C6: two calls of the same exporter that are given the same form and items
\* return the same output.
C6_Deterministic ==
    \A i, j \in DOMAIN calls :
        ( /\ calls[i].fn = calls[j].fn
          /\ calls[i].given /\ calls[j].given
          /\ calls[i].its = calls[j].its ) =>
            calls[i].out = calls[j].out

\* C7: while the form does not change, an exporter called with the id alone and
\* the same exporter called with the form and the items fetched from it return
\* the same output.
C7_BackwardCompatible ==
    \A i, j \in DOMAIN calls :
        ( /\ calls[i].fn = calls[j].fn
          /\ ~calls[i].given /\ calls[j].given
          /\ calls[j].its = calls[j].live
          /\ calls[i].live = calls[j].live ) =>
            calls[i].out = calls[j].out

C7_Witness ==
    /\ Len(calls) = 2
    /\ calls[1].fn = "md" /\ calls[2].fn = "md"
    /\ ~calls[1].given /\ calls[2].given
    /\ calls[1].live = calls[2].live
    /\ calls[2].its = << QPick, PBEnd >>
    /\ active = "same"

\* C8: buildSectionMap has an entry exactly at the positions of the PAGE_BREAK
\* items, and the entry of the k-th PAGE_BREAK item has number k.
C8_SectionsNumberedInOrder ==
    nav.fn = "buildSectionMap" =>
        /\ DOMAIN nav.sectionMap = PageBreakPositions(nav.its)
        /\ \A i \in DOMAIN nav.sectionMap :
               nav.sectionMap[i].number = PageBreaksUpTo(nav.its, i)

C8_Witness ==
    /\ nav.fn = "buildSectionMap"
    /\ nav.its = << QName, PBEnd, PBIntro >>
    /\ nav.sectionMap[1].number = 1
    /\ nav.sectionMap[2].number = 2

\* The line exportFormToMarkdown is to render for a choice that jumps to the
\* page break at position p of its: it begins with the choice's text and ends
\* with the arrow and "Go to section n (T)".
JumpLine(line, choice, its, p) ==
    /\ IsPrefix(<< "- " >> \o convertToMarkdown(choice.value), line)
    /\ IsSuffix(<< " -> ", "**Go to section ", ToString(PageBreaksUpTo(its, p)), " (" >>
                    \o convertToMarkdown(its[p + 1].title) \o << ")**" >>,
                line)

\* C9: in the Markdown of a snapshot, every choice of a titled single-choice or
\* dropdown item that jumps to a titled page break of the snapshot, before or
\* after the item, has a line ending with "-> **Go to section n (T)**".
C9_JumpChoiceRendered ==
    \A k \in DOMAIN calls :
        calls[k].fn = "md" =>
            \A i \in 1..Len(calls[k].its) :
                LET it == calls[k].its[i]
                IN  (it.type \in { "MULTIPLE_CHOICE", "LIST" } /\ it.title # << >>) =>
                        \A c \in 1..Len(it.choices) :
                            it.choices[c].navType = "GO_TO_PAGE" =>
                                \A p \in PositionsOfId(calls[k].its, it.choices[c].goto) :
                                    ( /\ p \in PageBreakPositions(calls[k].its)
                                      /\ calls[k].its[p + 1].title # << >> ) =>
                                        \E l \in DOMAIN calls[k].out :
                                            JumpLine(calls[k].out[l], it.choices[c],
                                                     calls[k].its, p)

\* The first position of allItems that holds the id t, -1 if none does.
FirstPosition(allItems, t) ==
    IF PositionsOfId(allItems, t) = {} THEN -1
    ELSE CHOOSE i \in PositionsOfId(allItems, t) :
             \A j \in PositionsOfId(allItems, t) : i <= j

\* C10: both resolvers return the empty text for a jump to t when no item of
\* the list they search has the id t, or when the position of that item is not
\* the position of a page break of the list the section map is built from.
C10_UnresolvedJumpIsSilent ==
    ( /\ nav.fn \in { "getNavigationText", "getDefaultSectionNavigation" }
      /\ nav.navType = "GO_TO_PAGE"
      /\ nav.navItem # 0
      /\ FirstPosition(nav.allItems, nav.navItem) \notin PageBreakPositions(nav.its) ) =>
        nav.text = << >>

C10_Witness ==
    /\ nav.fn = "getNavigationText"
    /\ nav.navType = "GO_TO_PAGE"
    /\ nav.navItem = PBEnd.id
    /\ nav.allItems = << QName, PBEnd >>
    /\ nav.its = << PBEnd, QName >>
    /\ nav.text = << >>

\* C11: for the CONTINUE directive the inline resolver getNavigationText
\* returns the empty text and the section-summary resolver
\* getDefaultSectionNavigation returns "Continue to next section".
C11_ContinueAtTheTwoCallSites ==
    nav.navType = "CONTINUE" =>
        /\ nav.fn = "getNavigationText" => nav.text = << >>
        /\ nav.fn = "getDefaultSectionNavigation" => nav.text = << "Continue to next section" >>

C11_Witness ==
    /\ nav.fn = "getDefaultSectionNavigation"
    /\ nav.navType = "CONTINUE"
    /\ nav.text # << >>
    /\ nav.allItems = << PBIntro, QName >>

IsQuestion(it) == it.type # "PAGE_BREAK" /\ it.title # << >>

IsQuestionLine(line) == line # << >> /\ line[1] = "### Q"

C13_UntitledItemSkipped ==
    \A i, j \in DOMAIN calls :
        ( /\ calls[i].fn = "md" /\ calls[j].fn = "md"
          /\ \E k \in 1..Len(calls[i].its) :
                /\ calls[i].its[k].type # "PAGE_BREAK"
                /\ calls[i].its[k].title = << >>
                /\ calls[j].its = RemoveAt(calls[i].its, k) ) =>
            calls[i].out = calls[j].out

IsDefaultLine(line) == line # << >> /\ line[1] = "_Default: "

IsSectionLine(line) == line # << >> /\ line[1] = "## Section "

IsTitledBreak(it) == it.type = "PAGE_BREAK" /\ it.title # << >>

IsMarkerLine(line) == IsSectionLine(line) \/ IsQuestionLine(line) \/ IsDefaultLine(line)

\* How many of seq[1..n-1] pass the test.
CountBefore(seq, Test(_), n) == Cardinality({ i \in 1..(n - 1) : Test(seq[i]) })

\* The j-th least element of a set of numbers.
Nth(S, j) == CHOOSE x \in S : Cardinality({ y \in S : y < x }) = j - 1

\* The place of the first page break after its[i], Len(its) + 1 if there is none.
NextBreak(its, i) ==
    LET later == { q \in (i + 1)..Len(its) : its[q].type = "PAGE_BREAK" }
    IN  IF later = {} THEN Len(its) + 1 ELSE Nth(later, 1)

\* C14: every page break whose directive is CONTINUE or SUBMIT, titled or not,
\* has a default navigation text; the "_Default: ..._" lines of the Markdown
\* are, in order, those of the page breaks that have one; and the line of a
\* page break stands after the headings of all questions up to the next page
\* break and before the heading of that page break.
C14_DefaultClosesEachSection ==
    \A c \in DOMAIN calls :
        calls[c].fn = "md" =>
            LET its == calls[c].its
                out == calls[c].out
                DefaultOf(i) == getDefaultSectionNavigation(its[i], its, buildSectionMap(its))
                annotated == { i \in 1..Len(its) :
                                  its[i].type = "PAGE_BREAK" /\ DefaultOf(i) # << >> }
                defaults == { l \in 1..Len(out) : IsDefaultLine(out[l]) }
            IN  /\ \A i \in 1..Len(its) :
                       (its[i].type = "PAGE_BREAK" /\ its[i].nav.navType \in { "CONTINUE", "SUBMIT" })
                           => i \in annotated
                /\ Cardinality(defaults) = Cardinality(annotated)
                /\ \A j \in 1..Cardinality(annotated) :
                       LET i == Nth(annotated, j)
                           l == Nth(defaults, j)
                       IN  /\ out[l] = << "_Default: " >> \o DefaultOf(i) \o << "_" >>
                           /\ CountBefore(out, IsQuestionLine, l)
                                  = CountBefore(its, IsQuestion, NextBreak(its, i))
                           /\ CountBefore(out, IsSectionLine, l)
                                  = CountBefore(its, IsTitledBreak, NextBreak(its, i))

C14_Witness ==
    \E c \in DOMAIN calls :
        /\ calls[c].fn = "md"
        /\ calls[c].its = << PBIntro, QName, PBEnd >>
        /\ SelectSeq(calls[c].out, IsMarkerLine)
               = << << "## Section ", "1", ": ", "Intro" >>,
                    << "### Q", "2", ". ", "Name" >>,
                    << "_Default: ", "Continue to next section", "_" >>,
                    << "## Section ", "2", ": ", "End" >>,
                    << "_Default: ", "**Submit form**", "_" >> >>

\* The text the claim expects for the directive of the page break its[i].
ExpectedDefault(its, i) ==
    LET navType == its[i].nav.navType
        target == PositionsOfId(its, its[i].nav.goto)
        p == CHOOSE q \in target : TRUE
        n == PageBreaksUpTo(its, p)
        title == IF its[p + 1].title # << >> THEN its[p + 1].title
                 ELSE << "Section ", ToString(n) >>
    IN  IF navType = "CONTINUE" THEN << "Continue to next section" >>
        ELSE IF navType = "SUBMIT" THEN << "**Submit form**" >>
        ELSE << "**Go to section ", ToString(n), " (" >> \o convertToMarkdown(title) \o << ")**" >>

C16_MatchingTimestamps ==
    (outcome.fetch = "ok" /\ HasFile(".json") /\ HasFile(".md")) =>
        \A i, j \in DOMAIN drive : drive[i].name.stamp = drive[j].name.stamp

\* C17: every record exportFormToJson returns has a boolean isRequired, which
\* is false when the item has no isRequired method or the method throws (and
\* the method's answer otherwise); neither case makes the export throw.
C17_RequiredDefaultsToFalse ==
    /\ pc = "api" => outcome.json # "threw"
    /\ \A c \in DOMAIN calls :
           calls[c].fn = "json" =>
               /\ Len(calls[c].out.items) = Len(calls[c].its)
               /\ \A k \in 1..Len(calls[c].its) :
                      /\ calls[c].out.items[k].isRequired \in BOOLEAN
                      /\ calls[c].its[k].required \in { "no method", "throws" }
                             => calls[c].out.items[k].isRequired = FALSE
                      /\ calls[c].its[k].required \in { "true", "false" }
                             => calls[c].out.items[k].isRequired = (calls[c].its[k].required = "true")

C17_Witness ==
    \E c \in DOMAIN calls :
        /\ calls[c].fn = "json"
        /\ calls[c].its = << PBIntro, QBlank >>
        /\ PBIntro.required = "no method" /\ QBlank.required = "throws"
        /\ calls[c].out.items[1].isRequired = FALSE
        /\ calls[c].out.items[2].isRequired = FALSE

ChoiceErrorsLogged(id) ==
    Cardinality({ k \in DOMAIN logs :
                    logs[k].msg = "Error getting choices for item " /\ logs[k].arg = id })

\* C18: when getChoices() of a LIST, CHECKBOX or MULTIPLE_CHOICE item throws,
\* exportFormToJson still returns: the item's record has choices = [] and the
\* failure is logged once per export; every other choice item's record has
\* its choice values, and every record keeps the item's id, type and title.
C18_ChoiceFailureIsLocal ==
    /\ pc = "api" => outcome.json = "none"
    /\ \A c \in DOMAIN calls :
           calls[c].fn = "json" =>
               \A k \in 1..Len(calls[c].its) :
                   LET it == calls[c].its[k]
                       rec == calls[c].out.items[k]
                   IN  /\ rec.id = it.id /\ rec.type = it.type /\ rec.title = it.title
                       /\ (it.type \in { "LIST", "CHECKBOX", "MULTIPLE_CHOICE" }
                              /\ it.getChoices = "throws") =>
                              /\ rec.choices = << >>
                              /\ ChoiceErrorsLogged(it.id)
                                    = Cardinality({ d \in DOMAIN calls :
                                          /\ calls[d].fn = "json"
                                          /\ \E m \in 1..Len(calls[d].its) :
                                                 calls[d].its[m].id = it.id })
                       /\ (it.type \in { "LIST", "CHECKBOX", "MULTIPLE_CHOICE" }
                              /\ it.getChoices = "ok") =>
                              /\ Len(rec.choices) = Len(it.choices)
                              /\ \A m \in 1..Len(it.choices) :
                                     rec.choices[m] = it.choices[m].value
                              /\ ChoiceErrorsLogged(it.id) = 0

C18_Witness ==
    \E c \in DOMAIN calls :
        /\ calls[c].fn = "json"
        /\ calls[c].its = << QBroken, QAdded >>
        /\ calls[c].out.items[1].choices = << >>
        /\ calls[c].out.items[2].choices = << << "Blue" >> >>
        /\ ChoiceErrorsLogged(QBroken.id) = 1

\* C19: an item whose getChoices() throws never makes an export throw: a call
\* of exportFormToJson or of exportFormToMarkdown on a snapshot with such an
\* item returns.
C19_ItemFailureNeverAborts ==
    pc = "api" => (outcome.json # "threw" /\ outcome.md # "threw")

\* C20: for a snapshot of N items that stand at the positions 0..N-1 of the
\* form, exportFormToJson returns N records in the order of the items, the
\* record at array position j being that of the j-th item with index j.
C20_RecordsInInputOrder ==
    \A c \in DOMAIN calls :
        ( /\ calls[c].fn = "json"
          /\ \A j \in 1..Len(calls[c].its) :
                 PositionsOfId(calls[c].live, calls[c].its[j].id) = { j - 1 } ) =>
            /\ Len(calls[c].out.items) = Len(calls[c].its)
            /\ calls[c].out.count = Len(calls[c].its)
            /\ \A j \in 1..Len(calls[c].its) :
                   /\ calls[c].out.items[j].id = calls[c].its[j].id
                   /\ calls[c].out.items[j].index = j - 1

C20_Witness ==
    \E c \in DOMAIN calls :
        /\ calls[c].fn = "json"
        /\ calls[c].given
        /\ calls[c].its = << QBlank, PBEnd >>
        /\ calls[c].live = << QBlank, PBEnd, QAdded >>
        /\ calls[c].out.items[1].index = 0
        /\ calls[c].out.items[2].index = 1
        /\ calls[c].out.items[2].id = PBEnd.id

---------------------------------------------------------------------------
(* Properties of convertToMarkdown (SpecText).                             *)

BreakTags == { "<br>", "<br/>", "<br />" }
OpenTags == { "<b>", "<i>", "<u>", "<a href=\"" }
TagTokens == OpenTags \cup BreakTags \cup { "</b>", "</i>", "</u>", "\">", "</a>" }
IsTagFree(tok) == tok \notin TagTokens /\ tok # "<em>"

\* The first position at or after j that holds no tag-free token.
RECURSIVE InnerEnd(_, _)
InnerEnd(s, j) ==
    IF j > Len(s) \/ ~IsTagFree(s[j]) THEN j ELSE InnerEnd(s, j + 1)

\* The reading of a text, from token i on, as tag-free text, unrecognized
\* tags, line-break tags and elements <b>x</b>, <i>x</i>, <u>x</u> and
\* <a href="h">t</a> with tag-free x, t and h: whether the text reads that way
\* (ok) and what the contract makes of it (out).
RECURSIVE Mapped(_, _)
Mapped(s, i) ==
    IF i > Len(s) THEN [ok |-> TRUE, out |-> << >>]
    ELSE LET j == InnerEnd(s, i + 1)
             k == InnerEnd(s, j + 1)
             closes(c) == j <= Len(s) /\ s[j] = c
             then(piece, n) == [ok |-> Mapped(s, n).ok, out |-> piece \o Mapped(s, n).out]
         IN  IF s[i] \in BreakTags THEN then(<< "\n" >>, i + 1)
             ELSE IF s[i] \notin TagTokens THEN then(<< s[i] >>, i + 1)
             ELSE IF s[i] = "<b>" /\ closes("</b>")
                  THEN then(<< "**" >> \o SubSeq(s, i + 1, j - 1) \o << "**" >>, j + 1)
             ELSE IF s[i] = "<i>" /\ closes("</i>")
                  THEN then(<< "*" >> \o SubSeq(s, i + 1, j - 1) \o << "*" >>, j + 1)
             ELSE IF s[i] = "<u>" /\ closes("</u>")
                  THEN then(SubSeq(s, i, j), j + 1)
             ELSE IF s[i] = "<a href=\"" /\ closes("\">") /\ k <= Len(s) /\ s[k] = "</a>"
                  THEN then(<< "[" >> \o SubSeq(s, j + 1, k - 1) \o << "](" >>
                              \o SubSeq(s, i + 1, j - 1) \o << ")" >>, k + 1)
             ELSE [ok |-> FALSE, out |-> << >>]

\* C21: a text made of tag-free text and of the elements <b>x</b>, <i>x</i>,
\* <u>x</u>, <a href="h">t</a> with tag-free x, t, h and of line-break tags is
\* converted element by element: to **x**, *x*, <u>x</u>, [t](h) and a newline,
\* every occurrence, the text outside the elements unchanged.
C21_TagsMapped ==
    (conv.fn = "convertToMarkdown" /\ conv.arg.kind = "string"
        /\ Mapped(conv.arg.text, 1).ok)
    => conv.once.text = Mapped(conv.arg.text, 1).out

\* C22: converting the result of a conversion again changes nothing:
\* convertToMarkdown(convertToMarkdown(text)) = convertToMarkdown(text), for
\* every text.
C22_Idempotent ==
    conv.fn = "convertToMarkdown twice" => conv.twice.text = conv.once.text

\* C23: convertToMarkdown never throws, on a text or on an absent argument,
\* and returns the empty string for the empty string, null and undefined.
C23_Total ==
    conv.fn \in { "convertToMarkdown", "convertToMarkdown twice" }
    => /\ ~conv.once.threw
       /\ ~conv.twice.threw
       /\ (conv.arg.kind # "string" => conv.once.text = << >>)
       /\ (conv.arg.kind = "string" /\ conv.arg.text = << >> => conv.once.text = << >>)

C23_Witness ==
    /\ conv.fn = "convertToMarkdown"
    /\ conv.arg = JsUndefined
    /\ conv.once = [threw |-> FALSE, text |-> << >>]

---------------------------------------------------------------------------
(* Properties of the exporters on the item types (SpecVariants).           *)

\* The line of out that heads the j-th question of the document.
QuestionLine(out, j) == Nth({ l \in 1..Len(out) : IsQuestionLine(out[l]) }, j)

\* What the claim expects as the body of a single-choice or dropdown item,
\* given the navigation text nav[c] of each choice: the label, an empty line,
\* one line per choice, and the line of the "Other" option if it is enabled.
ChoiceBody(it, navOf) ==
    << << IF it.type = "LIST" THEN "_Dropdown (single choice)_" ELSE "_Single choice_" >>,
       << >> >>
        \o [c \in 1..Len(it.choices) |->
               << "- " >> \o convertToMarkdown(it.choices[c].value) \o navOf[c]]
        \o (IF it.hasOther THEN << << "- Other: _text response_" >> >> ELSE << >>)

\* C24: in the Markdown of a snapshot, the body of every titled single-choice
\* and dropdown item is the fixed label, one line per choice in the order of
\* the choices (the choice's converted text, then its navigation text), and
\* after them the line "- Other: _text response_" exactly when the item's
\* "Other" option is enabled; an empty line follows the body.
C24_ChoiceBody ==
    \A k \in DOMAIN calls :
        calls[k].fn = "md" =>
            LET its == calls[k].its
                out == calls[k].out
                allItems == IF active = "same" THEN calls[k].live
                            ELSE IF active = "other" THEN OtherItems ELSE << >>
            IN  \A i \in 1..Len(its) :
                    (IsQuestion(its[i]) /\ its[i].type \in { "MULTIPLE_CHOICE", "LIST" }) =>
                        LET l == QuestionLine(out, CountBefore(its, IsQuestion, i) + 1)
                            navOf == [c \in 1..Len(its[i].choices) |->
                                        getNavigationText(its[i].choices[c].navType,
                                                          its[i].choices[c].goto,
                                                          allItems, buildSectionMap(its))]
                            body == ChoiceBody(its[i], navOf)
                        IN  /\ l + 2 + Len(body) <= Len(out)
                            /\ out[l + 1] = << >>
                            /\ SubSeq(out, l + 2, l + 1 + Len(body)) = body
                            /\ out[l + 2 + Len(body)] = << >>

C24_Witness ==
    \E k \in DOMAIN calls :
        /\ calls[k].fn = "md"
        /\ calls[k].its = << PBEnd, QPick >>
        /\ \E l \in 1..(Len(calls[k].out) - 5) :
              SubSeq(calls[k].out, l, l + 5)
                  = << << "_Single choice_" >>,
                       << >>,
                       << "- ", "Yes", " -> ", "**Go to section ", "1", " (", "End", ")**" >>,
                       << "- ", "No" >>,
                       << "- Other: _text response_" >>,
                       << >> >>

\* The types renderItemBodyMarkdown and exportFormToMarkdown render specially.
SpecialTypes ==
    { "TEXT", "PARAGRAPH_TEXT", "MULTIPLE_CHOICE", "CHECKBOX", "LIST", "SCALE", "PAGE_BREAK" }

IsPlainQuestion(it) == it.title # << >> /\ it.type \notin SpecialTypes

\* C25: exportFormToMarkdown does not fail on a form whose questions are all
\* of types that are not specially rendered, and in the Markdown of a snapshot
\* the body of every titled item of such a type is the one line
\* "_Item type: <type> (not specially formatted)_".
C25_FallbackLine ==
    /\ (\A i \in 1..Len(live) : IsQuestion(live[i]) => IsPlainQuestion(live[i]))
           => outcome.md # "threw"
    /\ \A k \in DOMAIN calls :
           calls[k].fn = "md" =>
               \A i \in 1..Len(calls[k].its) :
                   IsPlainQuestion(calls[k].its[i]) =>
                       LET out == calls[k].out
                           l == QuestionLine(out, CountBefore(calls[k].its, IsQuestion, i) + 1)
                       IN  /\ l + 3 <= Len(out)
                           /\ SubSeq(out, l + 1, l + 3)
                                 = << << >>,
                                      << "_Item type: ", calls[k].its[i].type,
                                         " (not specially formatted)_" >>,
                                      << >> >>

\* C26: every record of exportFormToJson holds the common fields, points
\* being 0, and of the type-specific fields exactly those of its type: choices
\* and hasOtherOption for LIST, CHECKBOX and MULTIPLE_CHOICE, the bounds and
\* labels for SCALE, imageBlob for IMAGE, alignment for IMAGE and VIDEO,
\* pageNavigationType for PAGE_BREAK.
C26_FieldsByType ==
    \A k \in DOMAIN calls :
        calls[k].fn = "json" =>
            \A i \in 1..Len(calls[k].out.items) :
                LET r == calls[k].out.items[i]
                    Has(key) == key \in r.keys
                IN  /\ CommonKeys \subseteq r.keys
                    /\ r.points = 0
                    /\ r.type = calls[k].its[i].type
                    /\ \A key \in { "choices", "hasOtherOption" } :
                           Has(key) <=> r.type \in { "LIST", "CHECKBOX", "MULTIPLE_CHOICE" }
                    /\ \A key \in { "lowerBound", "upperBound", "leftLabel", "rightLabel" } :
                           Has(key) <=> r.type = "SCALE"
                    /\ Has("imageBlob") <=> r.type = "IMAGE"
                    /\ Has("alignment") <=> r.type \in { "IMAGE", "VIDEO" }
                    /\ Has("pageNavigationType") <=> r.type = "PAGE_BREAK"
                    /\ (r.lowerBound # Absent) <=> r.type = "SCALE"
                    /\ (r.imageBlob # Absent) <=> r.type = "IMAGE"
                    /\ (r.alignment # Absent) <=> r.type \in { "IMAGE", "VIDEO" }
                    /\ (r.pageNavigationType # "absent") <=> r.type = "PAGE_BREAK"

C26_Witness ==
    \E k \in DOMAIN calls :
        /\ calls[k].fn = "json"
        /\ calls[k].its = << QVideo, QScale >>
        /\ calls[k].out.items[1].keys = CommonKeys \cup { "alignment" }
        /\ calls[k].out.items[1].alignment = Given("RIGHT")
        /\ calls[k].out.items[2].keys
              = CommonKeys \cup { "lowerBound", "upperBound", "leftLabel", "rightLabel" }
        /\ calls[k].out.items[2].upperBound = Given(5)

---------------------------------------------------------------------------
(* Properties of the sections of the Markdown document (SpecProse).        *)

\* The page breaks of its, by place, that get a default navigation line.
Annotated(its) ==
    { i \in 1..Len(its) :
        /\ its[i].type = "PAGE_BREAK"
        /\ getDefaultSectionNavigation(its[i], its, buildSectionMap(its)) # << >> }

\* The page breaks of its, by place, whose directive is a jump to a page
\* break of its.
JumpingBreaks(its) ==
    { i \in 1..Len(its) :
        /\ its[i].type = "PAGE_BREAK"
        /\ its[i].nav.navType = "GO_TO_PAGE"
        /\ FirstPosition(its, its[i].nav.goto) \in PageBreakPositions(its) }

\* C27: a page break p whose directive is a jump to a page break t of the
\* same snapshot, before p, after p or p itself, gets the default navigation
\* line "_Default: **Go to section n (T)**_", n and T being the number and the
\* title buildSectionMap gives t, the title in its Markdown form and
\* "Section n" when t has no title.
C27_DefaultJumpAnyDirection ==
    \A c \in DOMAIN calls :
        calls[c].fn = "md" =>
            LET its == calls[c].its
                out == calls[c].out
                defaults == { l \in 1..Len(out) : IsDefaultLine(out[l]) }
            IN  \A i \in JumpingBreaks(its) :
                    LET section == buildSectionMap(its)[FirstPosition(its, its[i].nav.goto)]
                        t == its[FirstPosition(its, its[i].nav.goto) + 1]
                        j == Cardinality({ a \in Annotated(its) : a <= i })
                    IN  /\ i \in Annotated(its)
                        /\ Cardinality(defaults) = Cardinality(Annotated(its))
                        /\ section.title = IF t.title # << >> THEN t.title
                                           ELSE << "Section ", ToString(section.number) >>
                        /\ out[Nth(defaults, j)]
                              = << "_Default: ", "**Go to section ", ToString(section.number),
                                   " (" >> \o convertToMarkdown(section.title)
                                   \o << ")**", "_" >>

C27_Witness ==
    \E c \in DOMAIN calls :
        /\ calls[c].fn = "md"
        /\ calls[c].its = << PBSelf, PBQuiet, PBSkip >>
        /\ SelectSeq(calls[c].out, IsDefaultLine)
              = << << "_Default: ", "**Go to section ", "1", " (", "Self", ")**", "_" >>,
                   << "_Default: ", "Continue to next section", "_" >>,
                   << "_Default: ", "**Go to section ", "2", " (", "Section ", "2", ")**", "_" >> >>

\* C28: the number in the heading "## Section N: ..." of a titled page break
\* is the number buildSectionMap gives that page break, page breaks without a
\* title before it counted: the section headings of the Markdown are, in
\* order, those of the titled page breaks of the snapshot, each with the
\* number of the section map, and the walk's section counter after any page
\* break is that page break's number in the section map.
C28_HeadingNumberIsMapNumber ==
    \A c \in DOMAIN calls :
        calls[c].fn = "md" =>
            LET its == calls[c].its
                sectionMap == buildSectionMap(its)
                titled == { i \in 1..Len(its) : IsTitledBreak(its[i]) }
                headings == SelectSeq(calls[c].out, IsSectionLine)
            IN  /\ Len(headings) = Cardinality(titled)
                /\ \A j \in 1..Cardinality(titled) :
                       LET i == Nth(titled, j)
                       IN  headings[j]
                              = << "## Section ", ToString(sectionMap[i - 1].number), ": " >>
                                    \o convertToMarkdown(its[i].title)
                /\ \A i \in 1..Len(its) :
                       its[i].type = "PAGE_BREAK" =>
                           Walk(WalkStart(<< >>), 0, SubSeq(its, 1, i), sectionMap,
                                << >>).sectionCounter = sectionMap[i - 1].number

C28_Witness ==
    \E c \in DOMAIN calls :
        /\ calls[c].fn = "md"
        /\ calls[c].its = << PBQuiet, PBBlank, PBEnd >>
        /\ SelectSeq(calls[c].out, IsSectionLine) = << << "## Section ", "3", ": ", "End" >> >>

\* C29: the help text of a page break, when it has one, is in the Markdown in
\* its converted form, whether or not the page break has a title: it is a
\* line of the document, preceded by an empty line and, when the page break
\* has a title, by the heading of its section.
C29_HelpTextOfUntitledBreak ==
    \A c \in DOMAIN calls :
        calls[c].fn = "md" =>
            \A i \in 1..Len(calls[c].its) :
                LET it == calls[c].its[i]
                    out == calls[c].out
                IN  (it.type = "PAGE_BREAK" /\ it.helpText # << >>) =>
                        \E l \in 2..Len(out) :
                            /\ out[l] = convertToMarkdown(it.helpText)
                            /\ out[l - 1] = << >>
                            /\ it.title # << >> => (l > 2 /\ IsSectionLine(out[l - 2]))

---------------------------------------------------------------------------
(* Properties of the build step (SpecBuild).                               *)

\* The last line of a .env file that sets the variable v, 0 if none does.
LastSetting(lines, v) ==
    LET setting == { k \in 1..Len(lines) :
                        /\ Len(lines[k]) >= 2
                        /\ ~startsWithHash(lines[k][1])
                        /\ trim(lines[k][1]) = v }
    IN  IF setting = {} THEN 0 ELSE CHOOSE k \in setting : \A j \in setting : j <= k

\* The variable v is absent from the file or empty in it.
AbsentOrEmpty(lines, v) ==
    \/ LastSetting(lines, v) = 0
    \/ LET line == lines[LastSetting(lines, v)]
       IN  Len(line) = 2 /\ trim(line[2]) = ""

\* .env is missing, or FORM_ID or EXPORT_FOLDER_ID is absent or empty in it.
EnvLacks ==
    \/ build.env = Absent
    \/ AbsentOrEmpty(build.env[1], "FORM_ID")
    \/ AbsentOrEmpty(build.env[1], "EXPORT_FOLDER_ID")

SourceUntouched ==
    /\ build.src \in SrcDirs
    /\ \A k \in 1..Len(build.ops) : build.ops[k][2] # "src"

\* The script has stopped with status 1 and has written nothing.
StoppedBeforeWriting ==
    /\ build.exit = Given(1)
    /\ build.ops = << >>
    /\ build.dist \in { Absent, Given(StaleDist) }
    /\ build.src \in SrcDirs

\* C30: when .env is missing, or FORM_ID or EXPORT_FOLDER_ID is absent or
\* empty in it, inject-env.js exits with status 1 before it has removed,
\* created or written anything; files are copied and placeholders replaced
\* only when both variables are present; and no file under src/ is ever
\* modified.
C30_ValidatesBeforeWriting ==
    /\ (build.pc = "exit" /\ EnvLacks) => StoppedBeforeWriting
    /\ (build.pc # "none" /\ build.ops # << >>) => ~EnvLacks
    /\ (build.pc = "exit" /\ ~EnvLacks) => build.exit = Given(0)
    /\ build.pc # "none" => SourceUntouched

===========================================================================
